---- MODULE Spec2Model ----
(***************************************************************************)
(* Model of the distribution worker (src/worker/bananaWorker.ts, first     *)
(* revision, lines 1-546) and of the recorder it reports to                *)
(* (app/api/admin/ops/route.ts over the OPS singleton of lib/state.ts):    *)
(* the largest-remainder allocation of snapshotAndDistribute, the adaptive *)
(* batch submitter sendAirdropsAdaptiveBase, the stage scheduler           *)
(* loop()/safeRun, the startup guards with withConnRetries, and recordOps  *)
(* with the recorder's POST handler.                                       *)
(* Each part has its own specification over the shared variables.          *)
(***************************************************************************)
EXTENDS Integers, Sequences, FiniteSets, TLC

VARIABLES
  \* ---- snapshotAndDistribute (allocation) ----
  holdersBase,   \* result of getHoldersAllBase: sequence of [wallet, amountBase]
  minBase,       \* MIN_HOLDER_BALANCE in base units
  maxBase,       \* MAX_HOLDER_BALANCE in base units
  poolBase,      \* tokenBalanceBase(devWallet, targetMint)
  rows,          \* allocation rows handed to sendAirdropsAdaptiveBase
  toSend,        \* toSendBase of the invocation (0 until computed)
  aPc,           \* "start" | "sent" (rows produced and submitted) | "skipped"
  \* ---- sendAirdropsAdaptiveBase (batch submitter) ----
  sRows,         \* the rows argument: sequence of [valid, amountBase]
  queue,         \* rows not yet taken, as indices into sRows
  groupSize,     \* current batch width
  group,         \* the group taken by the current iteration of the while loop
  sPc,           \* "idle" | "batch" | "sending" | "batchSleep" | "singles" | "singleSleep" | "done"
  sIdx,          \* index of the row the singles phase is at
  delivered,     \* per row: number of confirmed transfers
  attempted,     \* rows that were part of a submitted transaction
  retries,       \* resubmissions of the current transaction so far (saturating)
  rejected,      \* the group last rejected as oversize and its width, until the next submission
  \* ---- loop() and safeRun (stage scheduler); times in units of 5 seconds ----
  clock,         \* wall clock
  lPc,           \* "idle" | "top" | "times" | "check" | "run" | "end"
  stage,         \* the if-block of the tick: "claim" | "swap" | "dist"
  id,            \* nextTimes().id of the tick: the window start
  now,           \* const now = new Date() of the tick
  fired,         \* the fired set: pairs <<id, stage>>
  startedAt,     \* clock at which the running safeRun was called
  abandoned,     \* stages with a body still running after safeRun timed out
  invoked,       \* per <<id, stage>>: how often loop() invoked the stage (saturating at 2)
  tickCalls,     \* the stages the current tick has invoked, in order
  freshAtTick,   \* nothing was fired for id when the tick read the time
  ticked,        \* a tick has completed since the clock last advanced
  late,          \* the clock advanced while the loop was neither in a stage nor done with a tick
  midRun,        \* some stage settled after running a while, short of its timeout
  captured,      \* what the running stage function read at its call: the claim's cycleId, or
                 \* the cycleId of the lastClaimState the swap sizes from (NoCycle: none)
  abandonedCap,  \* per stage: the same, of the stage function left running by a timeout
  tokens,        \* per cycle id c: claim requests sent with the token claim:c (saturating at 2)
  lastSwapOf,    \* the last swap submitted: <<id of the tick, cycleId of the claim it was sized
                 \* from>> (NoSwap: none yet)
  \* ---- startup and withConnRetries (ledger endpoints) ----
  env,           \* process.env of the worker: variable name -> string ("" when unset)
  bPc,           \* "idle" | "boot" | "crashed" (startup threw) | "running" (loop() called)
  RPCS,          \* the endpoint list
  rpcIdx,        \* index into RPCS (0-based, as in the code)
  connection,    \* endpoint of the module-level connection
  wPc,           \* withConnRetries: "idle" | "try" | "sleep" | "returned" | "thrown"
  wI,            \* its loop counter i
  wC,            \* its local c: endpoint of the connection handed to fn
  wFn,           \* its fn: the ledger read of the call site
  wLastErr,      \* its lastErr (message)
  wLog,          \* the calls fn(c) made so far: [c, fn, idx (rpcIdx at the call)]
  \* ---- the recorder (POST /api/admin/ops) and the worker's recordOps ----
  oPc,           \* "idle" | "up"
  srvSecret,     \* ADMIN_SECRET of the recorder's process
  OPS,           \* the OPS singleton of lib/state.ts
  lastStatus,    \* status of the recorder's last response (0: none yet)
  posts,         \* the lastAirdrop reports the recorder took in, in order of arrival
  nPosts,        \* requests and publish calls so far
  wSecret,       \* ADMIN_SECRET of the worker's process
  wUrl,          \* ADMIN_OPS_URL of the worker's process
  lastClaimState,\* the worker's lastClaimState
  lastWork,      \* the stage result the worker last published: [kind, cycleId, amount]
  sentBase,      \* totalSent of the worker's last completed distribution
  acked,         \* totalSent of the distributions whose report was answered 2xx
  pub,           \* how the last recordOps call ended: "none" | "unconfigured" | "caught" | "notOk" | "ok" | "raised"
  \* ---- getHoldersAllBase (ledger scan) ----
  accts,         \* token accounts of the mint on the ledger, per token program: [owner, amount]
  hPc,           \* "idle" | "scan1" | "scan2" | "ret" | "done"
  merged,        \* the merged Map, as [wallet, amountBase] in insertion order
  \* ---- snapshot endpoint: getHolders(mint) ----
  gpa,           \* what getProgramAccounts returns, per mint and token program
  HOLDERS,       \* the holders cache: [ts, mint, list, inflight]
  snapTasks,     \* enumerations in flight: set of [owner, mint, pc, merged]
  calls,         \* per GET request: [pc, mint, awaits, out]
  snapNow        \* Date.now() of the endpoint, in seconds

allocVars == <<holdersBase, minBase, maxBase, poolBase, rows, toSend, aPc>>
sendVars == <<sRows, queue, groupSize, group, sPc, sIdx, delivered, attempted, retries, rejected>>

bodyVars == <<captured, abandonedCap, tokens, lastSwapOf>>

loopVars == <<clock, lPc, stage, id, now, fired, startedAt, abandoned, invoked, tickCalls,
              freshAtTick, ticked, late, midRun, bodyVars>>

connVars == <<env, bPc, RPCS, rpcIdx, connection, wPc, wI, wC, wFn, wLastErr, wLog>>

opsVars == <<oPc, srvSecret, OPS, lastStatus, posts, nPosts, wSecret, wUrl, lastClaimState,
             lastWork, sentBase, acked, pub>>

\* the recorder's and the publisher's variables, without lastClaimState
opsRest == <<oPc, srvSecret, OPS, lastStatus, posts, nPosts, wSecret, wUrl, lastWork, sentBase,
             acked, pub>>

scanVars == <<accts, hPc, merged>>

snapVars == <<gpa, HOLDERS, snapTasks, calls, snapNow>>

vars == <<allocVars, sendVars, loopVars, connVars, opsVars, scanVars, snapVars>>

(***************************************************************************)
(* Bounds of the model                                                     *)
(***************************************************************************)
MaxHolders == 3
MaxAmount == 3
MaxPool == 8
MaxRows == 8
MaxClock == 26
MaxPosts == 3
MaxAccts == 2
MaxSnapClock == 5

(***************************************************************************)
(* Generic helpers                                                         *)
(***************************************************************************)
Min(a, b) == IF a < b THEN a ELSE b
Max(a, b) == IF a > b THEN a ELSE b

RECURSIVE SumSeq(_)
SumSeq(s) == IF s = <<>> THEN 0 ELSE Head(s) + SumSeq(Tail(s))

Range(s) == {s[i] : i \in 1..Len(s)}

\* All sequences over S of length 0..n
SeqsUpTo(S, n) == UNION {[1..k -> S] : k \in 0..n}

\* JSON values, tagged with what typeof / null checks tell apart
Undefined == [t |-> "undefined"]
Null == [t |-> "null"]
Num(n) == [t |-> "number", n |-> n]
Str(x) == [t |-> "string", s |-> x]
Obj(fields) == [t |-> "object", o |-> fields]

(***************************************************************************)
(* snapshotAndDistribute: eligibility and largest-remainder allocation     *)
(***************************************************************************)
\* the dev wallet's own identifier (dev58)
DevWallet == 1

\* eligible = holdersBase.filter(h => h.wallet !== dev58 && min <= amt <= max)
Eligible(hs, mn, mx) ==
  SelectSeq(hs, LAMBDA h : h.wallet # DevWallet /\ h.amountBase >= mn /\ h.amountBase <= mx)

\* toSendBase = (poolBase * 90n) / 100n
ToSendBase(pool) == (pool * 90) \div 100

\* totalEligibleBase = eligible.reduce((a, h) => a + h.amountBase, 0n)
TotalEligibleBase(el) == SumSeq([i \in 1..Len(el) |-> el[i].amountBase])

\* shares = eligible.map(h => {wallet, base: prod / T, rem: prod % T})
Shares(el, P) ==
  LET T == TotalEligibleBase(el)
  IN [i \in 1..Len(el) |->
        [wallet |-> el[i].wallet,
         base   |-> (P * el[i].amountBase) \div T,
         rem    |-> (P * el[i].amountBase) % T]]

\* Array.prototype.sort is stable: an element is placed behind every element
\* the comparator does not order after it (rem descending, ties keep order).
RECURSIVE InsertByRem(_, _)
InsertByRem(s, x) ==
  IF s = <<>> THEN <<x>>
  ELSE IF Head(s).rem >= x.rem THEN <<Head(s)>> \o InsertByRem(Tail(s), x)
  ELSE <<x>> \o s

\* mutant: the comparator reversed (rem ascending)
RECURSIVE InsertByRemAsc(_, _)
InsertByRemAsc(s, x) ==
  IF s = <<>> THEN <<x>>
  ELSE IF Head(s).rem <= x.rem THEN <<Head(s)>> \o InsertByRemAsc(Tail(s), x)
  ELSE <<x>> \o s

RECURSIVE SortByRemAsc(_)
SortByRemAsc(s) ==
  IF s = <<>> THEN <<>>
  ELSE InsertByRemAsc(SortByRemAsc(SubSeq(s, 1, Len(s) - 1)), s[Len(s)])

RECURSIVE SortByRemDesc(_)
SortByRemDesc(s) ==
  IF s = <<>> THEN <<>>
  ELSE InsertByRem(SortByRemDesc(SubSeq(s, 1, Len(s) - 1)), s[Len(s)])

\* mutant: the leftover units are never handed out (floors only)
AddRemainderNoTopUp(sh, P) == sh

\* mutant: the whole shortfall goes to the first share of the sorted list
AddRemainderAllToFirst(sh, P) ==
  LET sumBase == SumSeq([i \in 1..Len(sh) |-> sh[i].base])
  IN IF sumBase < P
       THEN LET sorted == SortByRemDesc(sh)
            IN [i \in 1..Len(sorted) |->
                  IF i = 1 THEN [sorted[i] EXCEPT !.base = @ + (P - sumBase)] ELSE sorted[i]]
       ELSE sh

\* mutant: on a shortfall every share gets one more unit
AddRemainderEveryShare(sh, P) ==
  LET sumBase == SumSeq([i \in 1..Len(sh) |-> sh[i].base])
  IN IF sumBase < P
       THEN LET sorted == SortByRemDesc(sh)
            IN [i \in 1..Len(sorted) |-> [sorted[i] EXCEPT !.base = @ + 1]]
       ELSE sh

\* if (sumBase < toSendBase) { sort; for (i = 0; add > 0 && i < n; i++) base += 1 }
AddRemainder(sh, P) ==
  LET sumBase == SumSeq([i \in 1..Len(sh) |-> sh[i].base])
  IN IF sumBase < P
       THEN LET add == P - sumBase
                sorted == SortByRemDesc(sh)
            IN [i \in 1..Len(sorted) |->
                  IF i <= add THEN [sorted[i] EXCEPT !.base = @ + 1] ELSE sorted[i]]
       ELSE sh

\* rows = shares.filter(s => s.base > 0n).map(s => ({wallet, amountBase: s.base}))
RowsOf(sh) ==
  LET kept == SelectSeq(sh, LAMBDA s : s.base > 0)
  IN [i \in 1..Len(kept) |-> [wallet |-> kept[i].wallet, amountBase |-> kept[i].base]]

AllocRows(el, P) == RowsOf(AddRemainder(Shares(el, P), P))

\* mutant: an empty pool is not noticed
PoolEmptyNever(P) == FALSE

\* if (toSendBase <= 0n) { log; return; }
PoolEmpty(P) == P <= 0

\* the amount a list of rows holds for a wallet (0 when it has no row)
RECURSIVE AmountOf(_, _)
AmountOf(rws, w) ==
  IF rws = <<>> THEN 0
  ELSE IF Head(rws).wallet = w THEN Head(rws).amountBase
  ELSE AmountOf(Tail(rws), w)

\* owners of token accounts: the dev wallet and three others
WalletIds == DevWallet..DevWallet + 3

\* Holder lists as getHoldersAllBase returns them: one entry per owner (a Map),
\* every amount positive, in any enumeration order.
HolderLists ==
  {hs \in SeqsUpTo([wallet : WalletIds, amountBase : 1..MaxAmount], MaxHolders) :
     \A i, j \in 1..Len(hs) : i # j => hs[i].wallet # hs[j].wallet}

AllocStart ==
  /\ holdersBase \in HolderLists
  /\ \E th \in {<<1, MaxAmount>>, <<2, MaxAmount - 1>>} :
       minBase = th[1] /\ maxBase = th[2]
  /\ poolBase \in 0..MaxPool
  /\ rows = <<>>
  /\ toSend = 0
  /\ aPc = "start"

\* snapshotAndDistribute returns early: no holders, no eligible holder, empty
\* pool, or zero total weight.
DistributeSkips ==
  /\ aPc = "start"
  /\ LET el == Eligible(holdersBase, minBase, maxBase)
     IN \/ Len(holdersBase) = 0
        \/ Len(el) = 0
        \/ PoolEmpty(ToSendBase(poolBase))
        \/ TotalEligibleBase(el) <= 0
  /\ aPc' = "skipped"
  /\ UNCHANGED <<holdersBase, minBase, maxBase, poolBase, rows, toSend>>
  /\ UNCHANGED <<sendVars, loopVars, connVars, opsVars, scanVars, snapVars>>

\* snapshotAndDistribute computes the rows and hands them to the submitter.
DistributeAllocates ==
  /\ aPc = "start"
  /\ LET el == Eligible(holdersBase, minBase, maxBase)
     IN /\ Len(holdersBase) # 0
        /\ Len(el) # 0
        /\ ~PoolEmpty(ToSendBase(poolBase))
        /\ TotalEligibleBase(el) > 0
        /\ toSend' = ToSendBase(poolBase)
        /\ rows' = AllocRows(el, ToSendBase(poolBase))
  /\ aPc' = "sent"
  /\ UNCHANGED <<holdersBase, minBase, maxBase, poolBase>>
  /\ UNCHANGED <<sendVars, loopVars, connVars, opsVars, scanVars, snapVars>>

(***************************************************************************)
(* sendAirdropsAdaptiveBase: adaptive batches, then the singles phase      *)
(***************************************************************************)
\* Number(process.env.AIRDROP_GROUP_SIZE ?? 10)
AIRDROP_GROUP_SIZE == 10
\* Number(process.env.AIRDROP_GROUP_MAX ?? 12)
AIRDROP_GROUP_MAX == 12
\* attempts = 5: the one attempt count the worker defines
ATTEMPTS == 5

\* values of AIRDROP_GROUP_SIZE the environment may configure
GroupSizeEnv == {1, 2, 8, AIRDROP_GROUP_SIZE, AIRDROP_GROUP_MAX}

\* Representative messages of errors thrown by sendAirdropBatch
ErrorMessages ==
  {"Transaction too large: 1644 > 1232",
   "429 Too Many Requests",
   "Transaction was not confirmed in 30.00 seconds",
   "custom program error: 0x1",
   "tx too large (connection reset)"}

\* m.includes("tx too large") || m.includes("transaction too large"), lower-cased
isTxTooLarge(msg) ==
  msg \in {"Transaction too large: 1644 > 1232", "tx too large (connection reset)"}

\* mutant: every message is classified transient
looksRetryableAny(msg) == TRUE

\* /rate.?limit|429|timeout|...|connection|...|Transaction was not confirmed|.../i
looksRetryableMessage(msg) ==
  msg \in {"429 Too Many Requests",
           "Transaction was not confirmed in 30.00 seconds",
           "tx too large (connection reset)"}

\* the rows of a group that get instructions: amountBase > 0 and new PublicKey
\* does not throw (the catch {} leaves the others out)
IxRows(g) == SelectSeq(g, LAMBDA i : sRows[i].amountBase > 0 /\ sRows[i].valid)

\* queue.splice(0, Math.min(groupSize, queue.length))
SpliceHead(q, n) == SubSeq(q, 1, Min(n, Len(q)))
SpliceRest(q, n) == SubSeq(q, Min(n, Len(q)) + 1, Len(q))

\* mutant: the width is lowered by one instead of halved
HalvedByOne(n) == Max(1, n - 1)

\* Math.max(1, Math.floor(groupSize / 2))
Halved(n) == Max(1, n \div 2)

\* mutant: the width grows without the cap
GrownUnclamped(n) == n + 1

\* Math.min(groupSize + 1, AIRDROP_GROUP_MAX)
Grown(n) == Min(n + 1, AIRDROP_GROUP_MAX)

Bump(n) == Min(n + 1, ATTEMPTS + 1)

\* Number(process.env.TX_RETRY_SLEEP_MS ?? 1000)
TX_RETRY_SLEEP_MS == 1000
\* Number(process.env.FINAL_SINGLE_RETRY_SLEEP_MS ?? 1000)
FINAL_SINGLE_RETRY_SLEEP_MS == 1000

\* the delay slept before the n-th retry of a batch: await sleep(TX_RETRY_SLEEP_MS)
BatchRetryDelay(n) == TX_RETRY_SLEEP_MS

\* the delay slept before the n-th retry of a single transfer
SingleRetryDelay(n) == FINAL_SINGLE_RETRY_SLEEP_MS

\* the time slept between the previous submission of the batched phase and
\* the one about to be made with r retries behind it: the sleep of line 387
\* after a transient error, nothing after a success, a shrink or a requeue
WaitSincePrevious(r) == IF r > 0 THEN BatchRetryDelay(r) ELSE 0

\* the rows of a group for which building the instructions emits a log
\* record: catch {} (line 370) and continue (lines 363, 372) log nothing
LoggedDrops(g) == {}

\* mutant: the continue after the sleep goes to the while loop, which takes
\* the next group
AfterBatchSleepOuter == "batch"

\* continue (line 387) is inside the for (;;): sendAirdropBatch(ixs) is called
\* again with the same ixs
AfterBatchSleep == "sending"

\* Row lists of up to MaxRows rows, at most one of them with a malformed
\* address or an amount of zero.
RowLists ==
  {rs \in SeqsUpTo([valid : BOOLEAN, amountBase : {0, 1}], MaxRows) :
     Cardinality({i \in 1..Len(rs) : ~rs[i].valid \/ rs[i].amountBase = 0}) <= 1}

NoReject == [width |-> 0, rows |-> <<>>]

\* mutant: the rejected rows are put behind the rows still waiting
RequeueBehind(g, q) == q \o g

\* queue = group.concat(queue)
Requeue(g, q) == g \o q

SendIdle ==
  /\ sRows = <<>>
  /\ queue = <<>>
  /\ groupSize = AIRDROP_GROUP_SIZE
  /\ group = <<>>
  /\ sPc = "idle"
  /\ sIdx = 0
  /\ delivered = <<>>
  /\ attempted = {}
  /\ retries = 0
  /\ rejected = NoReject

\* let queue = rows.slice(); let groupSize = Number(env.AIRDROP_GROUP_SIZE ?? 10)
SendStart ==
  /\ sRows \in RowLists
  /\ queue = [i \in 1..Len(sRows) |-> i]
  /\ groupSize \in GroupSizeEnv
  /\ group = <<>>
  /\ sPc = "batch"
  /\ sIdx = 0
  /\ delivered = [i \in 1..Len(sRows) |-> 0]
  /\ attempted = {}
  /\ retries = 0
  /\ rejected = NoReject

\* while (queue.length > 0): take the next group and build its instructions;
\* a group with no instruction but the sender's own is skipped (continue).
TakeGroup ==
  /\ sPc = "batch"
  /\ queue # <<>>
  /\ group' = SpliceHead(queue, groupSize)
  /\ queue' = SpliceRest(queue, groupSize)
  /\ sPc' = IF Len(IxRows(group')) = 0 THEN "batch" ELSE "sending"
  /\ retries' = 0
  /\ UNCHANGED <<sRows, groupSize, sIdx, delivered, attempted, rejected>>
  /\ UNCHANGED <<allocVars, loopVars, connVars, opsVars, scanVars, snapVars>>

\* sendAirdropBatch(ixs) resolves: the batch is confirmed, the width grows.
SubmitBatchOk ==
  /\ sPc = "sending"
  /\ delivered' = [i \in 1..Len(sRows) |->
                     IF i \in Range(IxRows(group)) THEN delivered[i] + 1 ELSE delivered[i]]
  /\ attempted' = attempted \cup Range(IxRows(group))
  /\ groupSize' = Grown(groupSize)
  /\ sPc' = "batch"
  /\ retries' = 0
  /\ rejected' = NoReject
  /\ UNCHANGED <<sRows, queue, group, sIdx>>
  /\ UNCHANGED <<allocVars, loopVars, connVars, opsVars, scanVars, snapVars>>

\* sendAirdropBatch(ixs) throws: shrink and requeue, retry in place, or requeue.
SubmitBatchFails ==
  /\ sPc = "sending"
  /\ \E msg \in ErrorMessages :
       /\ attempted' = attempted \cup Range(IxRows(group))
       /\ IF isTxTooLarge(msg) /\ groupSize > 1
            THEN /\ groupSize' = Halved(groupSize)
                 /\ queue' = Requeue(group, queue)
                 /\ sPc' = "batch"
                 /\ retries' = 0
                 /\ rejected' = [width |-> groupSize, rows |-> group]
            ELSE IF looksRetryableMessage(msg)
            THEN /\ retries' = Bump(retries)
                 /\ rejected' = NoReject
                 /\ sPc' = "batchSleep"
                 /\ UNCHANGED <<groupSize, queue>>
            ELSE /\ queue' = Requeue(group, queue)
                 /\ sPc' = "batch"
                 /\ retries' = 0
                 /\ rejected' = NoReject
                 /\ UNCHANGED groupSize
  /\ UNCHANGED <<sRows, group, sIdx, delivered>>
  /\ UNCHANGED <<allocVars, loopVars, connVars, opsVars, scanVars, snapVars>>

\* await sleep(TX_RETRY_SLEEP_MS) is over: continue, the same ixs are sent again
BatchRetryWakes ==
  /\ sPc = "batchSleep"
  /\ sPc' = AfterBatchSleep
  /\ UNCHANGED <<sRows, queue, groupSize, group, sIdx, delivered, attempted, retries, rejected>>
  /\ UNCHANGED <<allocVars, loopVars, connVars, opsVars, scanVars, snapVars>>

\* the while loop ends: for (const r of rows) starts at the first row
BatchesDone ==
  /\ sPc = "batch"
  /\ queue = <<>>
  /\ sPc' = "singles"
  /\ sIdx' = 1
  /\ retries' = 0
  /\ UNCHANGED <<sRows, queue, groupSize, group, delivered, attempted, rejected>>
  /\ UNCHANGED <<allocVars, loopVars, connVars, opsVars, scanVars, snapVars>>

\* if (r.amountBase <= 0n) continue
SingleSkip ==
  /\ sPc = "singles"
  /\ sIdx <= Len(sRows)
  /\ sRows[sIdx].amountBase <= 0
  /\ sIdx' = sIdx + 1
  /\ UNCHANGED <<sRows, queue, groupSize, group, sPc, delivered, attempted, retries, rejected>>
  /\ UNCHANGED <<allocVars, loopVars, connVars, opsVars, scanVars, snapVars>>

\* new PublicKey(r.wallet) throws inside the for (;;): the catch sleeps and the
\* loop runs the same row again
SingleThrows ==
  /\ sPc = "singles"
  /\ sIdx <= Len(sRows)
  /\ sRows[sIdx].amountBase > 0
  /\ ~sRows[sIdx].valid
  /\ sPc' = "singleSleep"
  /\ UNCHANGED <<sRows, queue, groupSize, group, sIdx, delivered, attempted, retries, rejected>>
  /\ UNCHANGED <<allocVars, loopVars, connVars, opsVars, scanVars, snapVars>>

\* await sleep(FINAL_SINGLE_RETRY_SLEEP_MS) is over: the for (;;) runs again
SingleRetryWakes ==
  /\ sPc = "singleSleep"
  /\ sPc' = "singles"
  /\ UNCHANGED <<sRows, queue, groupSize, group, sIdx, delivered, attempted, retries, rejected>>
  /\ UNCHANGED <<allocVars, loopVars, connVars, opsVars, scanVars, snapVars>>

\* the single transfer of the row is confirmed: break, next row
SingleSubmitOk ==
  /\ sPc = "singles"
  /\ sIdx <= Len(sRows)
  /\ sRows[sIdx].amountBase > 0
  /\ sRows[sIdx].valid
  /\ delivered' = [delivered EXCEPT ![sIdx] = @ + 1]
  /\ attempted' = attempted \cup {sIdx}
  /\ sIdx' = sIdx + 1
  /\ retries' = 0
  /\ rejected' = NoReject
  /\ UNCHANGED <<sRows, queue, groupSize, group, sPc>>
  /\ UNCHANGED <<allocVars, loopVars, connVars, opsVars, scanVars, snapVars>>

\* the single transfer throws: both branches of the catch sleep and loop again
SingleSubmitFails ==
  /\ sPc = "singles"
  /\ sIdx <= Len(sRows)
  /\ sRows[sIdx].amountBase > 0
  /\ sRows[sIdx].valid
  /\ \E msg \in ErrorMessages :
       retries' = IF looksRetryableMessage(msg) THEN Bump(retries) ELSE retries
  /\ attempted' = attempted \cup {sIdx}
  /\ rejected' = NoReject
  /\ sPc' = "singleSleep"
  /\ UNCHANGED <<sRows, queue, groupSize, group, sIdx, delivered>>
  /\ UNCHANGED <<allocVars, loopVars, connVars, opsVars, scanVars, snapVars>>

\* the for loop over rows ends: the function returns
SinglesDone ==
  /\ sPc = "singles"
  /\ sIdx > Len(sRows)
  /\ sPc' = "done"
  /\ UNCHANGED <<sRows, queue, groupSize, group, sIdx, delivered, attempted, retries, rejected>>
  /\ UNCHANGED <<allocVars, loopVars, connVars, opsVars, scanVars, snapVars>>

(***************************************************************************)
(* loop() and safeRun: the stage scheduler. One time unit is 5 seconds.    *)
(***************************************************************************)
\* w = CYCLE_MINUTES * 60_000
WINDOW == 12
\* tPlus30 = start + 30_000
T_PLUS_30 == 6
\* tPlus60Minus5 = start + 60_000 - 5_000
T_PLUS_60_MINUS_5 == 11
\* safeRun(triggerClaimAtStart, "claim", 60_000)
CLAIM_TIMEOUT == 12
\* safeRun(triggerSwapAt30s, "swap", 90_000)
SWAP_TIMEOUT == 18
\* safeRun(snapshotAndDistribute, "airdrop", 180_000)
AIRDROP_TIMEOUT == 36

Stages == {"claim", "swap", "dist"}
StageOrder == <<"claim", "swap", "dist">>

\* Math.floor(d.getTime() / w) * w
floorCycleStart(t) == (t \div WINDOW) * WINDOW

\* the ids the model's clock can produce
CycleIds == {k * WINDOW : k \in 0..(MaxClock \div WINDOW)}

\* mutant: the distribution offset is the window end
DueAtWindowEnd(s, st, nw) ==
  CASE s = "claim" -> nw >= st
    [] s = "swap"  -> nw >= st + T_PLUS_30
    [] s = "dist"  -> nw >= st + WINDOW

\* now >= start, now >= tPlus30, now >= tPlus60Minus5
Due(s, st, nw) ==
  CASE s = "claim" -> nw >= st
    [] s = "swap"  -> nw >= st + T_PLUS_30
    [] s = "dist"  -> nw >= st + T_PLUS_60_MINUS_5

\* mutant: safeRun without the timer
TimeoutNever(s) == MaxClock + 1

\* the timeoutMs loop() passes to safeRun for the stage
Timeout(s) ==
  CASE s = "claim" -> CLAIM_TIMEOUT
    [] s = "swap"  -> SWAP_TIMEOUT
    [] s = "dist"  -> AIRDROP_TIMEOUT

\* mutant: the stage is not recorded in the fired set
MarkFiredNot(f, i, s) == f

\* fired.add(id + ":" + stage)
MarkFired(f, i, s) == f \cup {<<i, s>>}

\* !fired.has(id + ":" + stage) && now >= offset
Guard(f, i, s, nw) == <<i, s>> \notin f /\ Due(s, i, nw)

\* mutant: the distribute block is placed before the swap block
AfterStageDistFirst(s) ==
  CASE s = "claim" -> [pc |-> "check", stage |-> "dist"]
    [] s = "dist"  -> [pc |-> "check", stage |-> "swap"]
    [] s = "swap"  -> [pc |-> "end", stage |-> "swap"]

\* the if-block after stage s, or the "end" of the tick
AfterStage(s) ==
  CASE s = "claim" -> [pc |-> "check", stage |-> "swap"]
    [] s = "swap"  -> [pc |-> "check", stage |-> "dist"]
    [] s = "dist"  -> [pc |-> "end", stage |-> "dist"]

\* no cycle id: the stage function read nothing it will use
NoCycle == -1

\* no swap submitted yet
NoSwap == <<NoCycle, NoCycle>>

\* what a stage function reads synchronously when it is called:
\* triggerClaimAtStart: cycleId = String(floorCycleStart().getTime());
\* triggerSwapAt30s: lastClaimState, unless it is null or claimedSol <= 0
Capture(s, t, lcs) ==
  CASE s = "claim" -> floorCycleStart(t)
    [] s = "swap"  -> IF lcs = Null THEN NoCycle
                      ELSE IF lcs.claimedSol <= 0 THEN NoCycle ELSE lcs.cycleId
    [] s = "dist"  -> NoCycle

\* how a stage function can end.
\* claim: "throwsEarly" getSolBalance throws before the request is sent;
\*        "requestFails" the request is sent and the function throws;
\*        "claimed0" / "claimed1" the request succeeds, claimedSol is 0 / positive.
\* swap:  "noSwap" early return, or the quote or the swap throws (caught);
\*        "swaps" jupSwap submits the swap (only past the lastClaimState test).
\* dist:  "done" (the distribution is the subject of the allocation and
\*        sending parts).
Outcomes(s, cap) ==
  CASE s = "claim" -> {"throwsEarly", "requestFails", "claimed0", "claimed1"}
    [] s = "swap"  -> IF cap = NoCycle THEN {"noSwap"} ELSE {"noSwap", "swaps"}
    [] s = "dist"  -> {"done"}

\* lastClaimState = { cycleId, preSol, claimedSol, claimSig }
StoreClaim(lcs, cyc, sol) == [cycleId |-> cyc, claimedSol |-> sol]

\* the effects of a stage function that ends with outcome oc; i is the id of
\* the tick loop() is in. The recordOps call that follows a stored claim or a
\* submitted swap is the subject of the recorder part.
BodyEnds(s, i, cap, oc) ==
  /\ tokens' = IF s = "claim" /\ oc # "throwsEarly"
                 THEN [tokens EXCEPT ![cap] = Min(@ + 1, 2)] ELSE tokens
  /\ lastClaimState' = IF oc = "claimed0" THEN StoreClaim(lastClaimState, cap, 0)
                       ELSE IF oc = "claimed1" THEN StoreClaim(lastClaimState, cap, 1)
                       ELSE lastClaimState
  /\ lastSwapOf' = IF oc = "swaps" THEN <<i, cap>> ELSE lastSwapOf

LoopIdle ==
  /\ clock = 0
  /\ lPc = "idle"
  /\ stage = "claim"
  /\ id = 0
  /\ now = 0
  /\ fired = {}
  /\ startedAt = 0
  /\ abandoned = {}
  /\ invoked = <<>>
  /\ tickCalls = <<>>
  /\ freshAtTick = FALSE
  /\ ticked = FALSE
  /\ late = FALSE
  /\ midRun = FALSE
  /\ captured = NoCycle
  /\ abandonedCap = [s \in Stages |-> NoCycle]
  /\ tokens = [c \in CycleIds |-> 0]
  /\ lastSwapOf = NoSwap

\* loop() is called at any moment of the first window; const fired = new Set()
LoopStart ==
  /\ clock \in 0..(WINDOW - 1)
  /\ lPc = "top"
  /\ stage = "claim"
  /\ id = 0
  /\ now = 0
  /\ fired = {}
  /\ startedAt = 0
  /\ abandoned = {}
  /\ invoked = [p \in CycleIds \X Stages |-> 0]
  /\ tickCalls = <<>>
  /\ freshAtTick = FALSE
  /\ ticked = FALSE
  /\ late = FALSE
  /\ midRun = FALSE
  /\ captured = NoCycle
  /\ abandonedCap = [s \in Stages |-> NoCycle]
  /\ tokens = [c \in CycleIds |-> 0]
  /\ lastSwapOf = NoSwap

\* const { id, start, ... } = nextTimes()
NextTimes ==
  /\ lPc = "top"
  /\ id' = floorCycleStart(clock)
  /\ lPc' = "times"
  /\ UNCHANGED <<clock, stage, now, fired, startedAt, abandoned, invoked, tickCalls,
                 freshAtTick, ticked, late, midRun>>
  /\ UNCHANGED bodyVars
  /\ UNCHANGED <<allocVars, sendVars, connVars, opsVars, scanVars, snapVars>>

\* const now = new Date()
ReadNow ==
  /\ lPc = "times"
  /\ now' = clock
  /\ lPc' = "check"
  /\ stage' = "claim"
  /\ tickCalls' = <<>>
  /\ freshAtTick' = (\A s \in Stages : <<id, s>> \notin fired)
  /\ UNCHANGED <<clock, id, fired, startedAt, abandoned, invoked, ticked, late, midRun>>
  /\ UNCHANGED bodyVars
  /\ UNCHANGED <<allocVars, sendVars, connVars, opsVars, scanVars, snapVars>>

\* the if of the stage is false: fall through to the next if
SkipStage ==
  /\ lPc = "check"
  /\ ~Guard(fired, id, stage, now)
  /\ lPc' = AfterStage(stage).pc
  /\ stage' = AfterStage(stage).stage
  /\ UNCHANGED <<clock, id, now, fired, startedAt, abandoned, invoked, tickCalls,
                 freshAtTick, ticked, late, midRun>>
  /\ UNCHANGED bodyVars
  /\ UNCHANGED <<allocVars, sendVars, connVars, opsVars, scanVars, snapVars>>

\* the if of the stage is true: await safeRun(stage function, label, timeout)
StartStage ==
  /\ lPc = "check"
  /\ Guard(fired, id, stage, now)
  /\ lPc' = "run"
  /\ startedAt' = clock
  /\ invoked' = [invoked EXCEPT ![<<id, stage>>] = Min(@ + 1, 2)]
  /\ tickCalls' = Append(tickCalls, stage)
  /\ captured' = Capture(stage, clock, lastClaimState)
  /\ UNCHANGED <<clock, stage, id, now, fired, abandoned, freshAtTick, ticked, late, midRun>>
  /\ UNCHANGED <<abandonedCap, tokens, lastSwapOf>>
  /\ UNCHANGED <<allocVars, sendVars, connVars, opsVars, scanVars, snapVars>>

\* the stage function resolves or rejects before the timer: safeRun returns
\* and loop() adds the stage to the fired set
StageSettles ==
  /\ lPc = "run"
  /\ clock - startedAt < Timeout(stage)
  /\ fired' = MarkFired(fired, id, stage)
  /\ lPc' = AfterStage(stage).pc
  /\ stage' = AfterStage(stage).stage
  /\ midRun' = (midRun \/ clock > startedAt)
  /\ \E oc \in Outcomes(stage, captured) : BodyEnds(stage, id, captured, oc)
  /\ UNCHANGED <<clock, id, now, startedAt, abandoned, invoked, tickCalls, freshAtTick,
                 ticked, late>>
  /\ UNCHANGED <<captured, abandonedCap>>
  /\ UNCHANGED <<allocVars, sendVars, connVars, opsRest, scanVars, snapVars>>

\* the timer wins the race: safeRun logs and returns, the stage function is
\* left running, and loop() adds the stage to the fired set
StageTimesOut ==
  /\ lPc = "run"
  /\ clock - startedAt = Timeout(stage)
  /\ abandoned' = abandoned \cup {stage}
  /\ abandonedCap' = [abandonedCap EXCEPT ![stage] = captured]
  /\ fired' = MarkFired(fired, id, stage)
  /\ lPc' = AfterStage(stage).pc
  /\ stage' = AfterStage(stage).stage
  /\ UNCHANGED <<clock, id, now, startedAt, invoked, tickCalls, freshAtTick, ticked, late,
                 midRun>>
  /\ UNCHANGED <<captured, tokens, lastSwapOf>>
  /\ UNCHANGED <<allocVars, sendVars, connVars, opsVars, scanVars, snapVars>>

\* a stage function left running by a timeout comes to its end: nothing
\* cancels it, so it ends as it would have ended inside safeRun
AbandonedEnds ==
  /\ lPc # "idle"
  /\ \E s \in abandoned :
       /\ abandoned' = abandoned \ {s}
       /\ \E oc \in Outcomes(s, abandonedCap[s]) : BodyEnds(s, id, abandonedCap[s], oc)
  /\ UNCHANGED <<clock, lPc, stage, id, now, fired, startedAt, invoked, tickCalls,
                 freshAtTick, ticked, late, midRun>>
  /\ UNCHANGED <<captured, abandonedCap>>
  /\ UNCHANGED <<allocVars, sendVars, connVars, opsRest, scanVars, snapVars>>

\* if (now >= end) fired.clear(); await Promise.resolve()
EndTick ==
  /\ lPc = "end"
  /\ fired' = IF now >= id + WINDOW THEN {} ELSE fired
  /\ lPc' = "top"
  /\ ticked' = TRUE
  /\ UNCHANGED <<clock, stage, id, now, startedAt, abandoned, invoked, tickCalls,
                 freshAtTick, late, midRun>>
  /\ UNCHANGED bodyVars
  /\ UNCHANGED <<allocVars, sendVars, connVars, opsVars, scanVars, snapVars>>

\* Time passes: while a stage runs (up to its timeout), between two ticks, or
\* between the two clock reads of a tick. The loop polls without sleeping, so
\* it is late only if time passes without a whole tick in between.
Advance ==
  /\ lPc \in {"top", "times", "run"}
  /\ clock < MaxClock
  /\ lPc = "run" => clock - startedAt < Timeout(stage)
  /\ clock' = clock + 1
  /\ late' = (late \/ ~(lPc = "run" \/ (lPc = "top" /\ ticked)))
  /\ ticked' = FALSE
  /\ UNCHANGED <<lPc, stage, id, now, fired, startedAt, abandoned, invoked, tickCalls,
                 freshAtTick, midRun>>
  /\ UNCHANGED bodyVars
  /\ UNCHANGED <<allocVars, sendVars, connVars, opsVars, scanVars, snapVars>>

(***************************************************************************)
(* Startup (module top level) and withConnRetries / rotateConnection       *)
(***************************************************************************)
\* values the environment may give the variables the startup reads
EnvValues ==
  [TRACKED_MINT           : {"", "Mint1111", "not a key"},
   REWARD_WALLET          : {"", "Dev1111"},
   DEV_WALLET_PRIVATE_KEY : {"", "5Kd3secret", "not a key"},
   HELIUS_RPC             : {"", "https://helius.example/rpc"},
   HELIUS_API_KEY         : {"", "key-1"},
   QUICKNODE_RPC          : {"", "https://quicknode.example/rpc"}]

\* process.env.X || ""
OrEmpty(e, name) == e[name]

\* process.env.HELIUS_RPC || `https://mainnet.helius-rpc.com/?api-key=${HELIUS_API_KEY || ""}`
HeliusRpc(e) ==
  IF e.HELIUS_RPC # "" THEN e.HELIUS_RPC
  ELSE "https://mainnet.helius-rpc.com/?api-key=" \o e.HELIUS_API_KEY

\* !X of a string: the empty string is the only falsy one
Falsy(str) == str = ""

\* the two startup guards
ConfigThrows(e) ==
  \/ Falsy(OrEmpty(e, "TRACKED_MINT"))
  \/ Falsy(OrEmpty(e, "REWARD_WALLET"))
  \/ Falsy(OrEmpty(e, "DEV_WALLET_PRIVATE_KEY"))
  \/ Falsy(HeliusRpc(e))

\* toKeypair(DEV_WALLET_PRIVATE_KEY) and new PublicKey(TRACKED_MINT) throw on
\* a value that does not decode
KeysThrow(e) ==
  \/ e.DEV_WALLET_PRIVATE_KEY = "not a key"
  \/ e.TRACKED_MINT = "not a key"

\* [HELIUS_RPC, QUICKNODE_RPC].filter(Boolean)
RpcList(e) == SelectSeq(<<HeliusRpc(e), e.QUICKNODE_RPC>>, LAMBDA u : ~Falsy(u))

\* the ledger reads the worker wraps in withConnRetries
ConnFns == {"getParsedAccountInfo", "getParsedProgramAccounts", "getParsedTokenAccountsByOwner"}

\* mutant: the index is not advanced
SameIdx(idx, n) == idx

\* rpcIdx = (rpcIdx + 1) % RPCS.length
NextIdx(idx, n) == (idx + 1) % n

ConnIdle ==
  /\ env = [TRACKED_MINT |-> "", REWARD_WALLET |-> "", DEV_WALLET_PRIVATE_KEY |-> "",
            HELIUS_RPC |-> "", HELIUS_API_KEY |-> "", QUICKNODE_RPC |-> ""]
  /\ bPc = "idle"
  /\ RPCS = <<>>
  /\ rpcIdx = 0
  /\ connection = ""
  /\ wPc = "idle"
  /\ wI = 0
  /\ wC = ""
  /\ wFn = ""
  /\ wLastErr = ""
  /\ wLog = <<>>

ConnStart ==
  /\ env \in EnvValues
  /\ bPc = "boot"
  /\ RPCS = <<>>
  /\ rpcIdx = 0
  /\ connection = ""
  /\ wPc = "idle"
  /\ wI = 0
  /\ wC = ""
  /\ wFn = ""
  /\ wLastErr = ""
  /\ wLog = <<>>

\* A startup guard throws: the module never gets to loop().
BootThrows ==
  /\ bPc = "boot"
  /\ ConfigThrows(env)
  /\ bPc' = "crashed"
  /\ UNCHANGED <<env, RPCS, rpcIdx, connection, wPc, wI, wC, wFn, wLastErr, wLog>>
  /\ UNCHANGED <<allocVars, sendVars, loopVars, opsVars, scanVars, snapVars>>

\* The guards pass: RPCS, rpcIdx and connection are set up; then the keys are
\* decoded, and loop() is called if they decode.
BootStarts ==
  /\ bPc = "boot"
  /\ ~ConfigThrows(env)
  /\ RPCS' = RpcList(env)
  /\ rpcIdx' = 0
  /\ connection' = RpcList(env)[1]
  /\ bPc' = IF KeysThrow(env) THEN "crashed" ELSE "running"
  /\ UNCHANGED <<env, wPc, wI, wC, wFn, wLastErr, wLog>>
  /\ UNCHANGED <<allocVars, sendVars, loopVars, opsVars, scanVars, snapVars>>

\* withConnRetries(fn): let c = connection; i = 0
CallWithConnRetries ==
  /\ bPc = "running"
  /\ wPc \in {"idle", "returned", "thrown"}
  /\ \E f \in ConnFns : wFn' = f
  /\ wPc' = "try"
  /\ wI' = 0
  /\ wC' = connection
  /\ wLastErr' = ""
  /\ wLog' = <<>>
  /\ UNCHANGED <<env, bPc, RPCS, rpcIdx, connection>>
  /\ UNCHANGED <<allocVars, sendVars, loopVars, opsVars, scanVars, snapVars>>

\* return await fn(c)
AttemptReturns ==
  /\ wPc = "try"
  /\ wLog' = Append(wLog, [c |-> wC, fn |-> wFn, idx |-> rpcIdx])
  /\ wPc' = "returned"
  /\ UNCHANGED <<env, bPc, RPCS, rpcIdx, connection, wI, wC, wFn, wLastErr>>
  /\ UNCHANGED <<allocVars, sendVars, loopVars, opsVars, scanVars, snapVars>>

\* fn(c) throws: break and rethrow, or rotate and sleep
AttemptThrows ==
  /\ wPc = "try"
  /\ \E msg \in ErrorMessages :
       /\ wLastErr' = msg
       /\ wLog' = Append(wLog, [c |-> wC, fn |-> wFn, idx |-> rpcIdx])
       /\ IF wI = ATTEMPTS - 1 \/ ~looksRetryableMessage(msg) \/ Len(RPCS) <= 1
            THEN /\ wPc' = "thrown"
                 /\ UNCHANGED <<rpcIdx, connection, wC>>
            ELSE /\ rpcIdx' = NextIdx(rpcIdx, Len(RPCS))
                 /\ connection' = RPCS[NextIdx(rpcIdx, Len(RPCS)) + 1]
                 /\ wC' = RPCS[NextIdx(rpcIdx, Len(RPCS)) + 1]
                 /\ wPc' = "sleep"
  /\ UNCHANGED <<env, bPc, RPCS, wI, wFn>>
  /\ UNCHANGED <<allocVars, sendVars, loopVars, opsVars, scanVars, snapVars>>

\* await sleep(250 * (i + 1)) is over; i++
ConnRetryWakes ==
  /\ wPc = "sleep"
  /\ wI' = wI + 1
  /\ wPc' = "try"
  /\ UNCHANGED <<env, bPc, RPCS, rpcIdx, connection, wC, wFn, wLastErr, wLog>>
  /\ UNCHANGED <<allocVars, sendVars, loopVars, opsVars, scanVars, snapVars>>

(***************************************************************************)
(* The recorder: POST /api/admin/ops over the OPS singleton, and the       *)
(* worker's recordOps with the reports its stages publish                  *)
(***************************************************************************)
\* v.key (undefined when the property is absent)
Get(v, key) == IF v.t = "object" /\ key \in DOMAIN v.o THEN v.o[key] ELSE Undefined

\* truthiness of a value in a condition
Truthy(v) ==
  \/ v.t = "object"
  \/ (v.t = "number" /\ v.n # 0)
  \/ (v.t = "string" /\ v.s # "")

\* typeof v === "number", typeof v === "string"
IsNumber(v) == v.t = "number"
IsString(v) == v.t = "string"

\* v ?? d
OrElse(v, d) == IF v.t \in {"undefined", "null"} THEN d ELSE v

\* the initial OPS of lib/state.ts
OpsInitial ==
  [lastClaim |-> Null, lastSwap |-> Null, lastAirdrop |-> Null, totalAirdroppedUi |-> 0]

\* req.headers.get("x-admin-secret") || searchParams.get("k") || ""
AuthOf(req) == IF req.header # "" THEN req.header ELSE req.k

\* mutant: an unconfigured secret is not checked
ForbiddenLax(secret, auth) == auth # secret

\* !ADMIN_SECRET || auth !== ADMIN_SECRET
Forbidden(secret, auth) == Falsy(secret) \/ auth # secret

\* await req.json().catch(() => ({}))
ParseBody(raw) == IF raw.ok THEN raw.v ELSE Obj(<<>>)

\* clean: TxRef
CleanTx(x) ==
  Obj([at     |-> OrElse(Get(x, "at"), Str("now")),
       amount |-> Get(x, "amount"),
       tx     |-> OrElse(Get(x, "tx"), Null)])

\* clean: AirdropRef
CleanAirdrop(x) ==
  Obj([at          |-> OrElse(Get(x, "at"), Str("now")),
       totalSentUi |-> Get(x, "totalSentUi"),
       count       |-> IF IsNumber(Get(x, "count")) THEN Get(x, "count") ELSE Undefined,
       cycleId     |-> IF IsString(Get(x, "cycleId")) THEN Get(x, "cycleId") ELSE Undefined])

\* if (lastClaim && typeof lastClaim.amount === "number") OPS.lastClaim = clean
ApplyClaim(ops, body) ==
  LET x == Get(body, "lastClaim")
  IN IF Truthy(x) /\ IsNumber(Get(x, "amount")) THEN [ops EXCEPT !.lastClaim = CleanTx(x)] ELSE ops

\* mutant: lastSwap is written whether or not the body carries it
ApplySwapAlways(ops, body) == [ops EXCEPT !.lastSwap = CleanTx(Get(body, "lastSwap"))]

\* if (lastSwap && typeof lastSwap.amount === "number") OPS.lastSwap = clean
ApplySwap(ops, body) ==
  LET x == Get(body, "lastSwap")
  IN IF Truthy(x) /\ IsNumber(Get(x, "amount")) THEN [ops EXCEPT !.lastSwap = CleanTx(x)] ELSE ops

\* the lastAirdrop branch is entered
TakesAirdrop(body) ==
  Truthy(Get(body, "lastAirdrop")) /\ IsNumber(Get(Get(body, "lastAirdrop"), "totalSentUi"))

\* mutant: no report is recognised as counted
AlreadyCountedNever(ops, clean) == FALSE

\* !!(OPS.lastAirdrop && clean.cycleId && OPS.lastAirdrop.cycleId === clean.cycleId)
AlreadyCounted(ops, clean) ==
  /\ Truthy(ops.lastAirdrop)
  /\ Truthy(Get(clean, "cycleId"))
  /\ Get(ops.lastAirdrop, "cycleId") = Get(clean, "cycleId")

\* OPS.lastAirdrop = clean; if (!alreadyCounted) OPS.totalAirdroppedUi += clean.totalSentUi
ApplyAirdrop(ops, body) ==
  IF TakesAirdrop(body)
    THEN LET clean == CleanAirdrop(Get(body, "lastAirdrop"))
         IN [ops EXCEPT !.lastAirdrop = clean,
                        !.totalAirdroppedUi =
                           IF AlreadyCounted(ops, clean) THEN @
                           ELSE @ + Get(clean, "totalSentUi").n]
    ELSE ops

\* POST(req): the response status and the OPS it leaves
Handle(ops, secret, req) ==
  IF Forbidden(secret, AuthOf(req)) THEN [status |-> 403, ops |-> ops]
  ELSE LET body == ParseBody(req.raw)
       IN IF body.t # "object"
            THEN [status |-> 400, ops |-> ops]
            ELSE [status |-> 200,
                  ops |-> ApplyAirdrop(ApplySwap(ApplyClaim(ops, body), body), body)]

\* the reports taken in so far, after a request
TakenIn(ps, secret, req) ==
  IF Handle(OpsInitial, secret, req).status = 200 /\ TakesAirdrop(ParseBody(req.raw))
    THEN Append(ps, CleanAirdrop(Get(ParseBody(req.raw), "lastAirdrop")))
    ELSE ps

\* cycle ids as the reports carry them
CycleStrs == {"60000", "120000"}

\* lastAirdrop objects a client may send
AirdropReports ==
  {Obj([at |-> Str("t1"), totalSentUi |-> Num(a), count |-> Num(2), cycleId |-> Str(c)]) :
     a \in 1..2, c \in CycleStrs}
  \cup {Obj([totalSentUi |-> Num(1)]),
        Obj([at |-> Str("t1"), totalSentUi |-> Str("1"), cycleId |-> Str("60000")])}

\* request bodies a client may send: JSON objects, JSON null, and text that does not parse
RawBodies ==
  {[ok |-> TRUE, v |-> Obj([lastAirdrop |-> r])] : r \in AirdropReports}
  \cup {[ok |-> TRUE, v |-> Obj(<<>>)],
        [ok |-> TRUE, v |-> Null],
        [ok |-> FALSE],
        [ok |-> TRUE, v |-> Obj([lastClaim |-> Obj([at |-> Str("t1"), amount |-> Num(1), tx |-> Str("sig")])])],
        [ok |-> TRUE, v |-> Obj([lastSwap |-> Obj([amount |-> Num(1)])])],
        [ok |-> TRUE, v |-> Obj([lastClaim |-> Obj([amount |-> Num(2)]),
                                 lastAirdrop |-> Obj([totalSentUi |-> Num(2)])])]}

Requests ==
  [header : {"", "s3cret", "wrong"}, k : {"", "s3cret"}, raw : RawBodies]

\* what happens to the worker's fetch: the request never arrives, it is
\* answered, or it arrives and the answer is lost
NetOutcomes == {"lost", "answered", "answerLost"}

\* mutant: a rejected fetch is not caught
RecordOpsExitNoCatch(net, status) ==
  IF net # "answered" THEN "raised"
  ELSE IF status < 200 \/ status > 299 THEN "notOk" ELSE "ok"

\* try { res = await fetch(...); if (!res.ok) return; } catch {}
RecordOpsExit(net, status) ==
  IF net # "answered" THEN "caught"
  ELSE IF status < 200 \/ status > 299 THEN "notOk" ELSE "ok"

\* the request recordOps sends
WorkerReq(partial) == [header |-> wSecret, k |-> "", raw |-> [ok |-> TRUE, v |-> partial]]

\* recordOps(partial): returns at once without ADMIN_SECRET or ADMIN_OPS_URL,
\* else posts; ack says what to append to acked on a 2xx answer
RecordOps(partial, ack) ==
  IF Falsy(wSecret) \/ Falsy(wUrl)
    THEN /\ pub' = "unconfigured"
         /\ UNCHANGED <<OPS, lastStatus, posts, acked>>
    ELSE \E net \in NetOutcomes :
           LET r == Handle(OPS, srvSecret, WorkerReq(partial))
           IN /\ pub' = RecordOpsExit(net, r.status)
              /\ acked' = IF RecordOpsExit(net, r.status) = "ok" THEN acked \o ack ELSE acked
              /\ IF net = "lost"
                   THEN UNCHANGED <<OPS, lastStatus, posts>>
                   ELSE /\ OPS' = r.ops
                        /\ lastStatus' = r.status
                        /\ posts' = TakenIn(posts, srvSecret, WorkerReq(partial))

\* { lastClaim: { at, amountSol: claimedSol, tx: claimSig } }
ClaimReport(sol) ==
  Obj([lastClaim |-> Obj([at |-> Str("now"), amountSol |-> Num(sol), tx |-> Str("sig")])])

\* { lastAirdrop: { at, totalSentBase: totalSent.toString(), wallets, mint, decimals } }
AirdropReport(totalSent, wallets) ==
  Obj([lastAirdrop |-> Obj([at |-> Str("now"), totalSentBase |-> Str(ToString(totalSent)),
                            wallets |-> Num(wallets), mint |-> Str("Mint1111"),
                            decimals |-> Num(6)])])

NoWork == [kind |-> "none", cycleId |-> "", amount |-> 0]

OpsIdle ==
  /\ oPc = "idle"
  /\ srvSecret = ""
  /\ OPS = OpsInitial
  /\ lastStatus = 0
  /\ posts = <<>>
  /\ nPosts = 0
  /\ wSecret = ""
  /\ wUrl = ""
  /\ lastClaimState = Null
  /\ lastWork = NoWork
  /\ sentBase = 0
  /\ acked = <<>>
  /\ pub = "none"

OpsStart ==
  /\ oPc = "up"
  /\ srvSecret \in {"", "s3cret"}
  /\ OPS = OpsInitial
  /\ lastStatus = 0
  /\ posts = <<>>
  /\ nPosts = 0
  /\ wSecret \in {"", "s3cret", "wrong"}
  /\ wUrl \in {"", "https://site.example/api/admin/ops"}
  /\ lastClaimState = Null
  /\ lastWork = NoWork
  /\ sentBase = 0
  /\ acked = <<>>
  /\ pub = "none"

\* A client posts to the recorder.
AdminPost ==
  /\ oPc = "up"
  /\ nPosts < MaxPosts
  /\ \E req \in Requests :
       /\ OPS' = Handle(OPS, srvSecret, req).ops
       /\ lastStatus' = Handle(OPS, srvSecret, req).status
       /\ posts' = TakenIn(posts, srvSecret, req)
  /\ nPosts' = nPosts + 1
  /\ UNCHANGED <<oPc, srvSecret, wSecret, wUrl, lastClaimState, lastWork, sentBase, acked, pub>>
  /\ UNCHANGED <<allocVars, sendVars, loopVars, connVars, scanVars, snapVars>>

\* triggerClaimAtStart, from the claim's result on: lastClaimState is stored,
\* then the claim is published.
WorkerClaims ==
  /\ oPc = "up"
  /\ nPosts < MaxPosts
  /\ \E cyc \in CycleStrs, sol \in 0..1 :
       /\ lastClaimState' = [cycleId |-> cyc, claimedSol |-> sol]
       /\ lastWork' = [kind |-> "claim", cycleId |-> cyc, amount |-> sol]
       /\ RecordOps(ClaimReport(sol), <<>>)
  /\ nPosts' = nPosts + 1
  /\ UNCHANGED <<oPc, srvSecret, wSecret, wUrl, sentBase>>
  /\ UNCHANGED <<allocVars, sendVars, loopVars, connVars, scanVars, snapVars>>

\* snapshotAndDistribute, from the return of sendAirdropsAdaptiveBase on:
\* totalSent is summed over the rows, then the distribution is published.
WorkerDistributes ==
  /\ oPc = "up"
  /\ nPosts < MaxPosts
  /\ \E totalSent \in 1..2 :
       /\ sentBase' = totalSent
       /\ lastWork' = [kind |-> "dist", cycleId |-> "", amount |-> totalSent]
       /\ RecordOps(AirdropReport(totalSent, 1), <<totalSent>>)
  /\ nPosts' = nPosts + 1
  /\ UNCHANGED <<oPc, srvSecret, wSecret, wUrl, lastClaimState>>
  /\ UNCHANGED <<allocVars, sendVars, loopVars, connVars, scanVars, snapVars>>

(***************************************************************************)
(* getHoldersAllBase: one scan per token program, merged per owner         *)
(***************************************************************************)
\* the two token programs, in the order they are scanned
TokenPrograms == <<"Tokenkeg", "Tokenz2022">>

\* token accounts a program may hold for the mint (an amount of 0 is an
\* empty account)
AccountLists == SeqsUpTo([owner : {DevWallet + 1, DevWallet + 2}, amount : 0..2], MaxAccts)

\* map.set(k, (map.get(k) ?? 0n) + v) on a Map kept in insertion order
MapAdd(m, k, v) ==
  IF \E i \in 1..Len(m) : m[i].wallet = k
    THEN [i \in 1..Len(m) |-> IF m[i].wallet = k THEN [m[i] EXCEPT !.amountBase = @ + v] ELSE m[i]]
    ELSE Append(m, [wallet |-> k, amountBase |-> v])

\* scan(programId): out, built over the accounts; amt <= 0n is skipped
RECURSIVE ScanInto(_, _)
ScanInto(out, accs) ==
  IF accs = <<>> THEN out
  ELSE ScanInto(IF Head(accs).amount <= 0 THEN out
                ELSE MapAdd(out, Head(accs).owner, Head(accs).amount),
                Tail(accs))

\* for (const [k, v] of m) merged.set(k, (merged.get(k) ?? 0n) + v)
RECURSIVE MergeInto(_, _)
MergeInto(mg, m) ==
  IF m = <<>> THEN mg
  ELSE MergeInto(MapAdd(mg, Head(m).wallet, Head(m).amountBase), Tail(m))

\* the program the scan at hPc reads
ProgramAt(pc) == IF pc = "scan1" THEN TokenPrograms[1] ELSE TokenPrograms[2]

AfterScan(pc) == IF pc = "scan1" THEN "scan2" ELSE "ret"

ScanIdle ==
  /\ accts = [p \in Range(TokenPrograms) |-> <<>>]
  /\ hPc = "idle"
  /\ merged = <<>>

ScanStart ==
  /\ accts \in [Range(TokenPrograms) -> AccountLists]
  /\ hPc = "scan1"
  /\ merged = <<>>

\* the scan of a program returns and is merged
ScanReturns ==
  /\ hPc \in {"scan1", "scan2"}
  /\ merged' = MergeInto(merged, ScanInto(<<>>, accts[ProgramAt(hPc)]))
  /\ hPc' = AfterScan(hPc)
  /\ UNCHANGED accts
  /\ UNCHANGED <<allocVars, sendVars, loopVars, connVars, opsVars, snapVars>>

\* the scan of a program throws (withConnRetries gave up): catch {}
ScanThrows ==
  /\ hPc \in {"scan1", "scan2"}
  /\ hPc' = AfterScan(hPc)
  /\ UNCHANGED <<accts, merged>>
  /\ UNCHANGED <<allocVars, sendVars, loopVars, connVars, opsVars, snapVars>>

\* return Array.from(merged.entries()).map(...): the caller's holdersBase
HoldersReturn ==
  /\ hPc = "ret"
  /\ holdersBase' = merged
  /\ hPc' = "done"
  /\ UNCHANGED <<accts, merged>>
  /\ UNCHANGED <<minBase, maxBase, poolBase, rows, toSend, aPc>>
  /\ UNCHANGED <<sendVars, loopVars, connVars, opsVars, snapVars>>

(***************************************************************************)
(* Snapshot endpoint: getHolders(mint) with a 5 s cache and single-flight  *)
(***************************************************************************)
\* mints a GET request may name (?mint=...), and the GET requests of a run
SnapMints == {"mintA", "mintB"}
Callers == {"c1", "c2"}

PUMPFUN_AMM_WALLET == "amm"

\* holders cache TTL, in the seconds of snapNow
HOLDERS_TTL_MS == 5

\* token accounts getProgramAccounts may return for one mint and program
SnapAccountLists ==
  { <<>>,
    <<[owner |-> "w1", amount |-> 1]>>,
    <<[owner |-> "w2", amount |-> 2], [owner |-> PUMPFUN_AMM_WALLET, amount |-> 1]>> }

\* HOLDERS.inflight === null, and a slot that awaits no promise
NoTask == "null"

\* byProgram(programId, ...): out[owner] = (out[owner] ?? 0) + amt, amt > 0 only
byProgram(accs) == ScanInto(<<>>, accs)

\* .sort((a, b) => b.balance - a.balance), stable
RECURSIVE InsertByBalance(_, _)
InsertByBalance(s, x) ==
  IF s = <<>> THEN <<x>>
  ELSE IF Head(s).balance >= x.balance THEN <<Head(s)>> \o InsertByBalance(Tail(s), x)
  ELSE <<x>> \o s

RECURSIVE SortByBalanceDesc(_)
SortByBalanceDesc(s) ==
  IF s = <<>> THEN <<>>
  ELSE InsertByBalance(SortByBalanceDesc(SubSeq(s, 1, Len(s) - 1)), s[Len(s)])

\* Object.entries(merged).filter(addr !== AMM && bal > 0).map(...).sort(...)
HolderList(mg) ==
  LET kept == SelectSeq(mg, LAMBDA e : e.wallet # PUMPFUN_AMM_WALLET /\ e.amountBase > 0)
  IN SortByBalanceDesc([i \in 1..Len(kept) |->
                          [address |-> kept[i].wallet, balance |-> kept[i].amountBase]])

\* HOLDERS.mint === mint && now - HOLDERS.ts < HOLDERS_TTL_MS && HOLDERS.list.length
CacheHit(h, mint, t) ==
  /\ h.mint = mint
  /\ t - h.ts < HOLDERS_TTL_MS
  /\ Len(h.list) > 0

\* if (HOLDERS.inflight)
Inflight(h) == h.inflight # NoTask

IdleCall == [pc |-> "idle", mint |-> "", awaits |-> NoTask, out |-> <<>>]

SnapIdle ==
  /\ gpa = [m \in SnapMints |-> [p \in Range(TokenPrograms) |-> <<>>]]
  /\ HOLDERS = [ts |-> 0, mint |-> "", list |-> <<>>, inflight |-> NoTask]
  /\ snapTasks = {}
  /\ calls = [c \in Callers |-> IdleCall]
  /\ snapNow = 0

SnapStart ==
  /\ gpa \in [SnapMints -> [Range(TokenPrograms) -> SnapAccountLists]]
  /\ HOLDERS = [ts |-> 0, mint |-> "", list |-> <<>>, inflight |-> NoTask]
  /\ snapTasks = {}
  /\ calls = [c \in Callers |-> IdleCall]
  /\ snapNow = 0

SnapOthers == <<allocVars, sendVars, loopVars, connVars, opsVars, scanVars>>

\* getHolders(mint), cache hit: return HOLDERS.list
GetHoldersCached(c, mint) ==
  /\ calls[c].pc = "idle"
  /\ CacheHit(HOLDERS, mint, snapNow)
  /\ calls' = [calls EXCEPT ![c] = [pc |-> "returned", mint |-> mint, awaits |-> NoTask,
                                    out |-> HOLDERS.list]]
  /\ UNCHANGED <<gpa, HOLDERS, snapTasks, snapNow>>
  /\ UNCHANGED SnapOthers

\* getHolders(mint), an enumeration is in flight: return HOLDERS.inflight
GetHoldersJoins(c, mint) ==
  /\ calls[c].pc = "idle"
  /\ ~CacheHit(HOLDERS, mint, snapNow)
  /\ Inflight(HOLDERS)
  /\ calls' = [calls EXCEPT ![c] = [pc |-> "awaiting", mint |-> mint,
                                    awaits |-> HOLDERS.inflight, out |-> <<>>]]
  /\ UNCHANGED <<gpa, HOLDERS, snapTasks, snapNow>>
  /\ UNCHANGED SnapOthers

\* getHolders(mint), neither: start the task, HOLDERS.inflight = task, await task
GetHoldersStarts(c, mint) ==
  /\ calls[c].pc = "idle"
  /\ ~CacheHit(HOLDERS, mint, snapNow)
  /\ ~Inflight(HOLDERS)
  /\ snapTasks' = snapTasks \cup {[owner |-> c, mint |-> mint, pc |-> "scan1", merged |-> <<>>]}
  /\ HOLDERS' = [HOLDERS EXCEPT !.inflight = c]
  /\ calls' = [calls EXCEPT ![c] = [pc |-> "awaiting", mint |-> mint, awaits |-> c,
                                    out |-> <<>>]]
  /\ UNCHANGED <<gpa, snapNow>>
  /\ UNCHANGED SnapOthers

\* the task's end: the cache is stored, the promise resolves, the owner's
\* finally clears HOLDERS.inflight, and every caller awaiting the promise
\* returns its list (promise reactions run before the next request is served)
TaskEnds(t, mg) ==
  LET list == HolderList(mg)
  IN /\ snapTasks' = snapTasks \ {t}
     /\ HOLDERS' = [ts |-> snapNow, mint |-> t.mint, list |-> list, inflight |-> NoTask]
     /\ calls' = [c \in Callers |->
                    IF calls[c].pc = "awaiting" /\ calls[c].awaits = t.owner
                      THEN [calls[c] EXCEPT !.pc = "returned", !.awaits = NoTask, !.out = list]
                      ELSE calls[c]]

\* what a scan of the task leaves in merged: try { merge } catch {}
TaskStep(t, mg) ==
  IF t.pc = "scan1"
    THEN /\ snapTasks' = (snapTasks \ {t}) \cup {[t EXCEPT !.pc = "scan2", !.merged = mg]}
         /\ UNCHANGED <<HOLDERS, calls>>
    ELSE TaskEnds(t, mg)

\* byProgram of the task's current program returns and is merged
SnapScanReturns ==
  /\ \E t \in snapTasks :
        TaskStep(t, MergeInto(t.merged, byProgram(gpa[t.mint][ProgramAt(t.pc)])))
  /\ UNCHANGED <<gpa, snapNow>>
  /\ UNCHANGED SnapOthers

\* byProgram of the task's current program throws: catch {}
SnapScanThrows ==
  /\ \E t \in snapTasks : TaskStep(t, t.merged)
  /\ UNCHANGED <<gpa, snapNow>>
  /\ UNCHANGED SnapOthers

\* time passes: a second, or the cache's whole TTL
SnapTick ==
  /\ \E d \in {1, HOLDERS_TTL_MS} :
        /\ snapNow + d <= MaxSnapClock
        /\ snapNow' = snapNow + d
  /\ UNCHANGED <<gpa, HOLDERS, snapTasks, calls>>
  /\ UNCHANGED SnapOthers

AllocInit == AllocStart /\ SendIdle /\ LoopIdle /\ ConnIdle /\ OpsIdle /\ ScanIdle /\ SnapIdle

AllocNext == DistributeSkips \/ DistributeAllocates

AllocSpec == AllocInit /\ [][AllocNext]_vars

AllocIdle ==
  /\ holdersBase = <<>>
  /\ minBase = 1
  /\ maxBase = MaxAmount
  /\ poolBase = 0
  /\ rows = <<>>
  /\ toSend = 0
  /\ aPc = "idle"

SendInit == SendStart /\ AllocIdle /\ LoopIdle /\ ConnIdle /\ OpsIdle /\ ScanIdle /\ SnapIdle

SendNext ==
  \/ TakeGroup
  \/ SubmitBatchOk
  \/ SubmitBatchFails
  \/ BatchRetryWakes
  \/ BatchesDone
  \/ SingleSkip
  \/ SingleThrows
  \/ SingleRetryWakes
  \/ SingleSubmitOk
  \/ SingleSubmitFails
  \/ SinglesDone

SendSpec == SendInit /\ [][SendNext]_vars

\* The event loop always runs a pending continuation: some step is taken
\* whenever one is possible.
SendFairSpec == SendSpec /\ WF_vars(SendNext)

\* The submitter against a ledger that accepts every transaction.
SendNoFaultNext ==
  \/ TakeGroup
  \/ SubmitBatchOk
  \/ BatchesDone
  \/ SingleSkip
  \/ SingleThrows
  \/ SingleRetryWakes
  \/ SingleSubmitOk
  \/ SinglesDone

SendNoFaultSpec == SendInit /\ [][SendNoFaultNext]_vars /\ WF_vars(SendNoFaultNext)

LoopInit == LoopStart /\ AllocIdle /\ SendIdle /\ ConnIdle /\ OpsIdle /\ ScanIdle /\ SnapIdle

ConnInit == ConnStart /\ AllocIdle /\ SendIdle /\ LoopIdle /\ OpsIdle /\ ScanIdle /\ SnapIdle

ConnNext ==
  \/ BootThrows
  \/ BootStarts
  \/ CallWithConnRetries
  \/ AttemptReturns
  \/ AttemptThrows
  \/ ConnRetryWakes

ConnSpec == ConnInit /\ [][ConnNext]_vars

OpsInit == OpsStart /\ AllocIdle /\ SendIdle /\ LoopIdle /\ ConnIdle /\ ScanIdle /\ SnapIdle

OpsNext == AdminPost \/ WorkerClaims \/ WorkerDistributes

OpsSpec == OpsInit /\ [][OpsNext]_vars

ScanInit == ScanStart /\ AllocIdle /\ SendIdle /\ LoopIdle /\ ConnIdle /\ OpsIdle /\ SnapIdle

ScanNext == ScanReturns \/ ScanThrows \/ HoldersReturn

ScanSpec == ScanInit /\ [][ScanNext]_vars

SnapInit == SnapStart /\ AllocIdle /\ SendIdle /\ LoopIdle /\ ConnIdle /\ OpsIdle /\ ScanIdle

SnapNext ==
  \/ \E c \in Callers, mint \in SnapMints : GetHoldersCached(c, mint)
  \/ \E c \in Callers, mint \in SnapMints : GetHoldersJoins(c, mint)
  \/ \E c \in Callers, mint \in SnapMints : GetHoldersStarts(c, mint)
  \/ SnapScanReturns
  \/ SnapScanThrows
  \/ SnapTick

SnapSpec == SnapInit /\ [][SnapNext]_vars

LoopNext ==
  \/ NextTimes
  \/ ReadNow
  \/ SkipStage
  \/ StartStage
  \/ StageSettles
  \/ StageTimesOut
  \/ AbandonedEnds
  \/ EndTick
  \/ Advance

LoopSpec == LoopInit /\ [][LoopNext]_vars

\* The worker process: its entry point is loop().
Spec == LoopSpec

(***************************************************************************)
(* C1: whenever the allocation ran (pool P > 0, non-empty eligible list,   *)
(* total weight > 0), the amounts of the produced rows sum to P exactly.   *)
(***************************************************************************)
C1_Conservation ==
  aPc = "sent" =>
    SumSeq([i \in 1..Len(rows) |-> rows[i].amountBase]) = toSend

\* a run where P is not divisible by T, so the floors alone fall short
C1_Witness ==
  /\ aPc = "sent"
  /\ Len(rows) >= 2
  /\ LET el == Eligible(holdersBase, minBase, maxBase)
     IN /\ toSend % TotalEligibleBase(el) # 0
        /\ SumSeq([i \in 1..Len(el) |-> (toSend * el[i].amountBase) \div TotalEligibleBase(el)])
             < toSend

(***************************************************************************)
(* Predicates on the submitter's rows                                      *)
(***************************************************************************)
\* rows the submitter builds a transfer for: valid address, amount > 0
Sendable(i) == sRows[i].valid /\ sRows[i].amountBase > 0
\* rows whose wallet address is malformed
Malformed(i) == ~sRows[i].valid

(***************************************************************************)
(* C2: within one invocation every row's transfer is confirmed at most     *)
(* once: a row delivered in a successful batch is not submitted again, in  *)
(* a later batch or in the singles phase.                                  *)
(***************************************************************************)
C2_AtMostOnce == \A i \in 1..Len(sRows) : delivered[i] <= 1

(***************************************************************************)
(* C7: every row with a valid address and amount > 0 is eventually part of *)
(* a submitted transaction, whatever errors the batches ahead of it get.   *)
(***************************************************************************)
C7_EveryRowAttempted ==
  <>(\A i \in 1..Len(sRows) : Sendable(i) => i \in attempted)

(***************************************************************************)
(* C8: when a batch submitted at width 8 is rejected as oversize, the      *)
(* width becomes at most 4 and the rejected rows return to the front of    *)
(* the queue in order; the next batch submitted has at most 4 rows, all    *)
(* taken from the rejected batch; and when the function returns every row  *)
(* with a transfer has been delivered (none lost).                         *)
(***************************************************************************)
C8_ShrinkStep ==
  (sPc = "sending" /\ groupSize = 8 /\ rejected'.width = 8) =>
     /\ groupSize' <= 4
     /\ queue' = group \o queue
     /\ sPc' = "batch"

C8_NextBatch ==
  (sPc = "sending" /\ rejected.width = 8) =>
     /\ Len(group) <= 4
     /\ Range(group) \subseteq Range(rejected.rows)

C8_NoneLost ==
  sPc = "done" => \A i \in 1..Len(sRows) : Sendable(i) => delivered[i] >= 1

C9_MalformedRowDoesNotBlock ==
  <>(/\ sPc = "done"
     /\ \A i \in 1..Len(sRows) : Sendable(i) => delivered[i] >= 1
     /\ \A i \in 1..Len(sRows) : Malformed(i) => delivered[i] = 0)

(***************************************************************************)
(* C10: the resubmissions of one transaction caused by transient errors    *)
(* never exceed a fixed attempt count.                                     *)
(***************************************************************************)
C10_TransientRetriesBounded == retries <= ATTEMPTS

(***************************************************************************)
(* C3: for every cycle id and every stage, loop() invokes the stage's      *)
(* function at most once for that id, whatever the timing of the ticks,    *)
(* the stage durations and the clearing of the fired set.                  *)
(***************************************************************************)
C3_StageAtMostOncePerId == \A p \in DOMAIN invoked : invoked[p] <= 1

\* a later tick of the same id found the claim stage in the fired set and
\* invoked nothing, and the fired set has been cleared before
C3_Witness ==
  /\ lPc = "end"
  /\ id > 0
  /\ invoked[<<id, "claim">>] = 1
  /\ <<id, "claim">> \in fired
  /\ tickCalls = <<>>
  /\ \E p \in DOMAIN invoked : invoked[p] = 1 /\ p \notin fired

(***************************************************************************)
(* C4: a tick that reads the time at or after the distribution offset      *)
(* (55 s) of its window, with nothing fired yet for its id, invokes claim, *)
(* then swap, then distribute: each once, in this order, none skipped.     *)
(***************************************************************************)
C4_LateTickFiresAllInOrder ==
  (lPc = "end" /\ freshAtTick /\ now >= id + T_PLUS_60_MINUS_5) =>
     /\ tickCalls = StageOrder
     /\ \A s \in Stages : invoked[<<id, s>>] = 1

\* the first tick of a window arrived late, past the distribution offset
C4_Witness ==
  /\ lPc = "end"
  /\ freshAtTick
  /\ id > 0
  /\ now >= id + T_PLUS_60_MINUS_5
  /\ now < id + WINDOW
  /\ late
  /\ tickCalls = StageOrder

(***************************************************************************)
(* C5: a stage that runs until its timeout does not block the schedule:    *)
(* when the loop itself is never late and every stage either returns at    *)
(* once or runs to its timeout, every window the loop has moved past (a    *)
(* later tick computed a later id) had its claim, swap and distribute      *)
(* invoked.                                                                *)
(***************************************************************************)
C5_NoStageSkipped ==
  (lPc # "idle" /\ ~late /\ ~midRun) =>
     \A w \in CycleIds : w < id =>
        \A s \in Stages : invoked[<<w, s>>] >= 1

(***************************************************************************)
(* C6: at most one stage body executes at any moment: when loop() has a    *)
(* stage running, no stage function abandoned by a timeout is still        *)
(* running.                                                                *)
(***************************************************************************)
C6_OneStageBodyAtATime == lPc = "run" => abandoned = {}

(***************************************************************************)
(* C16: with the pool and the other weights fixed, raising one recipient's *)
(* weight (within the eligible range) never lowers that recipient's        *)
(* allocation.                                                             *)
(***************************************************************************)
Raised(el, i, d) == [el EXCEPT ![i].amountBase = @ + d]

C16_WeightMonotone ==
  aPc = "sent" =>
    LET el == Eligible(holdersBase, minBase, maxBase)
    IN \A i \in 1..Len(el) : \A d \in 1..MaxAmount :
         el[i].amountBase + d <= maxBase =>
           AmountOf(AllocRows(Raised(el, i, d), toSend), el[i].wallet)
             >= AmountOf(rows, el[i].wallet)

\* a recipient holding a top-up unit whose weight can be raised while another
\* recipient's remainder is positive
C16_Witness ==
  /\ aPc = "sent"
  /\ LET el == Eligible(holdersBase, minBase, maxBase)
         T == TotalEligibleBase(el)
     IN \E i, j \in 1..Len(el) :
          /\ i # j
          /\ el[i].amountBase < maxBase
          /\ AmountOf(rows, el[i].wallet) = (toSend * el[i].amountBase) \div T + 1
          /\ (toSend * el[j].amountBase) % T > 0

(***************************************************************************)
(* C17: among recipients tied on the remainder, the leftover units go to   *)
(* the lowest wallet identifiers, whatever the enumeration order: of two   *)
(* recipients with equal weight the lower wallet never gets less.          *)
(***************************************************************************)
C17_TiesByWalletOrder ==
  aPc = "sent" =>
    LET el == Eligible(holdersBase, minBase, maxBase)
    IN \A i, j \in 1..Len(el) :
         (el[i].amountBase = el[j].amountBase /\ el[i].wallet < el[j].wallet)
           => AmountOf(rows, el[i].wallet) >= AmountOf(rows, el[j].wallet)

(***************************************************************************)
(* C18: when the pool to send is 0 or the total eligible weight is 0       *)
(* (empty eligible list included), snapshotAndDistribute returns with no   *)
(* rows and nothing handed to the submitter.                               *)
(***************************************************************************)
C18_NothingToSendSkips ==
  (aPc \notin {"idle", "start"}
     /\ \/ ToSendBase(poolBase) <= 0
        \/ TotalEligibleBase(Eligible(holdersBase, minBase, maxBase)) = 0)
    => aPc = "skipped" /\ rows = <<>> /\ toSend = 0 /\ sPc = "idle"

\* a positive pool whose 90% rounds down to nothing, with eligible holders
C18_Witness ==
  /\ aPc = "skipped"
  /\ poolBase > 0
  /\ ToSendBase(poolBase) = 0
  /\ Len(Eligible(holdersBase, minBase, maxBase)) > 0

(***************************************************************************)
(* C19 as stated: every row's amount equals floor(toSendBase * weight / T).*)
(***************************************************************************)
FloorShare(el, P, w) ==
  LET i == CHOOSE k \in 1..Len(el) : el[k].wallet = w
  IN (P * el[i].amountBase) \div TotalEligibleBase(el)

C19_AmountIsFloor ==
  aPc = "sent" =>
    LET el == Eligible(holdersBase, minBase, maxBase)
    IN \A r \in 1..Len(rows) :
         rows[r].amountBase = FloorShare(el, toSend, rows[r].wallet)

(***************************************************************************)
(* C19 amended: every row's amount is the floor of its proportional share  *)
(* or one unit more.                                                       *)
(***************************************************************************)
C19_AmountWithinOneOfFloor ==
  aPc = "sent" =>
    LET el == Eligible(holdersBase, minBase, maxBase)
    IN \A r \in 1..Len(rows) :
         /\ rows[r].amountBase >= FloorShare(el, toSend, rows[r].wallet)
         /\ rows[r].amountBase <= FloorShare(el, toSend, rows[r].wallet) + 1

\* a shortfall of two units: two rows one above their floor, one row at it
C19_Witness ==
  /\ aPc = "sent"
  /\ LET el == Eligible(holdersBase, minBase, maxBase)
     IN /\ Cardinality({r \in 1..Len(rows) :
             rows[r].amountBase = FloorShare(el, toSend, rows[r].wallet) + 1}) = 2
        /\ \E r \in 1..Len(rows) :
             rows[r].amountBase = FloorShare(el, toSend, rows[r].wallet)

(***************************************************************************)
(* C20: started with a width in [1, AIRDROP_GROUP_MAX], groupSize stays in *)
(* [1, AIRDROP_GROUP_MAX] after any sequence of successes, oversize errors *)
(* and other errors.                                                       *)
(***************************************************************************)
C20_GroupSizeInRange ==
  sPc # "idle" => (groupSize >= 1 /\ groupSize <= AIRDROP_GROUP_MAX)

\* a batch confirmed at the widest setting: the width stays at the cap
C20_Witness ==
  /\ sPc = "batch"
  /\ groupSize = AIRDROP_GROUP_MAX
  /\ \E i \in 1..Len(sRows) : delivered[i] > 0

(***************************************************************************)
(* C11: with two or more endpoints, after an attempt of withConnRetries    *)
(* failed with a transient message and attempts remain, the next attempt   *)
(* runs the same fn against the endpoint at index (rpcIdx + 1) mod N; the  *)
(* call gives up on a transient error only after its last attempt.         *)
(***************************************************************************)
C11_NextAttemptOnNextEndpoint ==
  (bPc = "running" /\ Len(RPCS) >= 2) =>
    /\ \A k \in 1..Len(wLog) - 1 :
         /\ wLog[k + 1].c = RPCS[((wLog[k].idx + 1) % Len(RPCS)) + 1]
         /\ wLog[k + 1].fn = wLog[k].fn
    /\ (wPc = "try" /\ wLog # <<>>) =>
         /\ wC = RPCS[((wLog[Len(wLog)].idx + 1) % Len(RPCS)) + 1]
         /\ wFn = wLog[Len(wLog)].fn
    /\ (wPc = "thrown" /\ looksRetryableMessage(wLastErr)) => Len(wLog) = ATTEMPTS

\* three attempts of one call over two endpoints: the index wraps around
C11_Witness ==
  /\ bPc = "running"
  /\ Len(RPCS) = 2
  /\ Len(wLog) >= 3
  /\ wLog[1].idx = 1
  /\ wLog[2].idx = 0
  /\ wLog[3].idx = 1

(***************************************************************************)
(* C15: loop() is started only when every required setting is present:     *)
(* TRACKED_MINT, REWARD_WALLET, DEV_WALLET_PRIVATE_KEY and the RPC endpoint *)
(* (HELIUS_RPC or HELIUS_API_KEY).                                         *)
(***************************************************************************)
C15_MissingConfigNeverStarts ==
  bPc = "running" =>
    /\ env.TRACKED_MINT # ""
    /\ env.REWARD_WALLET # ""
    /\ env.DEV_WALLET_PRIVATE_KEY # ""
    /\ (env.HELIUS_RPC # "" \/ env.HELIUS_API_KEY # "")

(***************************************************************************)
(* C12: over any sequence of authorized POSTs whose lastAirdrop reports    *)
(* carry cycle ids, OPS.totalAirdroppedUi is the sum of one amount per     *)
(* cycle id (that of its first report): a repeated report adds nothing,    *)
(* also when reports for other cycle ids arrived in between.               *)
(***************************************************************************)
FirstOfItsCycle(ps, k) ==
  \A j \in 1..k - 1 : Get(ps[j], "cycleId") # Get(ps[k], "cycleId")

C12_CountedOncePerCycleId ==
  (oPc = "up" /\ \A k \in 1..Len(posts) : IsString(Get(posts[k], "cycleId")))
    => OPS.totalAirdroppedUi =
         SumSeq([k \in 1..Len(posts) |->
                   IF FirstOfItsCycle(posts, k) THEN Get(posts[k], "totalSentUi").n ELSE 0])

(***************************************************************************)
(* C13: a distribution whose report the recorder answered with 2xx is      *)
(* recorded there: the recorder holds a lastAirdrop and the total covers   *)
(* the amounts of the distributions published so far.                      *)
(***************************************************************************)
C13_PublishedDistributionRecorded ==
  acked # <<>> =>
    /\ OPS.lastAirdrop # Null
    /\ OPS.totalAirdroppedUi >= SumSeq(acked)

(***************************************************************************)
(* C14: recordOps never raises, whatever happens to the publish, and what  *)
(* the stage stored before publishing (lastClaimState, the transfers of    *)
(* the distribution) is what the stage computed, whatever the outcome.     *)
(***************************************************************************)
C14_RecordOpsNeverRaises ==
  /\ pub # "raised"
  /\ lastWork.kind = "claim" =>
       lastClaimState = [cycleId |-> lastWork.cycleId, claimedSol |-> lastWork.amount]
  /\ lastWork.kind = "dist" => sentBase = lastWork.amount

\* a distribution whose publish met a network error, with the worker configured
C14_Witness ==
  /\ pub = "caught"
  /\ lastWork.kind = "dist"
  /\ sentBase > 0
  /\ wSecret # ""
  /\ wUrl # ""

(***************************************************************************)
(* C21: getHoldersAllBase returns, for every holder, the sum of that        *)
(* holder's positive balances over the accounts of both token programs,    *)
(* also when the scan of one program fails.                                *)
(***************************************************************************)
RECURSIVE BalanceOf(_, _)
BalanceOf(accs, w) ==
  IF accs = <<>> THEN 0
  ELSE (IF Head(accs).owner = w /\ Head(accs).amount > 0 THEN Head(accs).amount ELSE 0)
         + BalanceOf(Tail(accs), w)

C21_BothProgramsMerged ==
  hPc = "done" =>
    \A w \in WalletIds :
      AmountOf(holdersBase, w)
        = BalanceOf(accts[TokenPrograms[1]], w) + BalanceOf(accts[TokenPrograms[2]], w)

(***************************************************************************)
(* C22: a POST whose secret is absent or differs from ADMIN_SECRET, and    *)
(* any POST when ADMIN_SECRET is not configured, is answered 403 and       *)
(* leaves every field of OPS unchanged.                                    *)
(***************************************************************************)
Supplied(req) == IF req.header # "" THEN req.header ELSE req.k

C22_Rejected(req) == srvSecret = "" \/ Supplied(req) = "" \/ Supplied(req) # srvSecret

C22_ForbiddenLeavesOpsAlone ==
  /\ [](\A req \in Requests :
          C22_Rejected(req) => Handle(OPS, srvSecret, req) = [status |-> 403, ops |-> OPS])
  /\ [][(nPosts' = nPosts + 1 /\ lastStatus' = 403) => OPS' = OPS]_vars

\* a POST was answered 403 after an earlier one had been recorded
C22_Witness ==
  /\ lastStatus = 403
  /\ nPosts >= 2
  /\ OPS # OpsInitial

(***************************************************************************)
(* C23: safeRun hands control back to loop() no later than timeoutMs after *)
(* it was called (60 s for claim, 90 s for swap, 180 s for distribute),    *)
(* whether the stage function resolves, rejects or never settles; loop()   *)
(* then goes on with the next if-block.                                    *)
(***************************************************************************)
C23_ControlBackWithinTimeout ==
  /\ [](lPc = "run" =>
          /\ stage = "claim" => clock - startedAt <= CLAIM_TIMEOUT
          /\ stage = "swap"  => clock - startedAt <= SWAP_TIMEOUT
          /\ stage = "dist"  => clock - startedAt <= AIRDROP_TIMEOUT)
  /\ [][(lPc = "run" /\ lPc' # "run") =>
          /\ lPc' \in {"check", "end"}
          /\ <<id, stage>> \in fired']_vars

\* the claim never settled: control came back at the 60 s mark and loop() is
\* at the swap block with the claim function still pending
C23_Witness ==
  /\ lPc = "check"
  /\ stage = "swap"
  /\ "claim" \in abandoned
  /\ clock = startedAt + CLAIM_TIMEOUT

(***************************************************************************)
(* C25: for every cycle id the stages are invoked in the order claim,      *)
(* swap, distribute: loop() invokes swap for an id only after its claim    *)
(* invocation for that id has returned, and distribute only after its swap *)
(* invocation for that id has returned.                                    *)
(***************************************************************************)
C25_Returned(i, s) == invoked[<<i, s>>] >= 1 /\ <<i, s>> \in fired

C25_StagesInOrder ==
  [][(lPc = "check" /\ lPc' = "run") =>
       /\ stage = "swap" => C25_Returned(id, "claim")
       /\ stage = "dist" => C25_Returned(id, "claim") /\ C25_Returned(id, "swap")]_vars

\* distribute is invoked in a tick of its own, in a window after the first
C25_Witness ==
  /\ lPc = "run"
  /\ stage = "dist"
  /\ tickCalls = <<"dist">>
  /\ id > 0

(***************************************************************************)
(* C28: whenever a tick of loop() begins in a new cycle window, the fired  *)
(* set holds no entry of an earlier cycle id.                              *)
(***************************************************************************)
C28_FiredHoldsOneCycleId ==
  lPc = "times" => \A p \in fired : p[1] = id

(***************************************************************************)
(* C24: after a stage invocation has been abandoned by safeRun's timeout,  *)
(* its eventual result is ignored: when the abandoned stage function comes *)
(* to its end it does not change lastClaimState, send a request or submit  *)
(* a transaction.                                                          *)
(***************************************************************************)
C24_AbandonedResultIgnored ==
  [][(abandoned' # abandoned /\ abandoned' \subseteq abandoned) =>
       /\ lastClaimState' = lastClaimState
       /\ tokens' = tokens
       /\ lastSwapOf' = lastSwapOf]_vars

(***************************************************************************)
(* C26: the swap stage of a cycle sizes its spend only from a claim result *)
(* produced in the same cycle: with the loop never late, every swap        *)
(* submitted in a tick of cycle id i was sized from the claim of cycle i.  *)
(***************************************************************************)
C26_SwapFromSameCycleClaim ==
  (~late /\ lastSwapOf # NoSwap) => lastSwapOf[2] = lastSwapOf[1]

(***************************************************************************)
(* C27: no two claim requests carry the same idempotency token claim:<id>, *)
(* whatever time elapses between computing the tick's id and sending the   *)
(* request.                                                                *)
(***************************************************************************)
C27_ClaimTokensDistinct == \A c \in CycleIds : tokens[c] <= 1

(***************************************************************************)
(* C29: sendAirdropsAdaptiveBase returns after finitely many steps even    *)
(* when a batch fails permanently (an error neither oversize at a width    *)
(* above 1 nor transient): once a batch has been put back unshrunk, the    *)
(* function still comes to its end.                                        *)
(***************************************************************************)
\* the batch just submitted is back at the front of the queue and the width
\* is as it was
PutBackUnshrunk ==
  /\ sPc = "batch"
  /\ group # <<>>
  /\ rejected = NoReject
  /\ Len(queue) >= Len(group)
  /\ SubSeq(queue, 1, Len(group)) = group

C29_ReturnsAfterPermanentFailure == PutBackUnshrunk ~> (sPc = "done")

(***************************************************************************)
(* C30: on an oversize error at a width above 1 the width becomes          *)
(* max(1, floor(width / 2)) and the rejected batch's rows go back to the   *)
(* front of the queue in their original order, so the pending queue is     *)
(* always a suffix of the original row list.                               *)
(***************************************************************************)
\* q holds the last Len(q) rows of the original list, in order
IsSuffixOfRows(q) ==
  /\ Len(q) <= Len(sRows)
  /\ \A k \in 1..Len(q) : q[k] = Len(sRows) - Len(q) + k

C30_OversizeStep ==
  (sPc = "sending" /\ sPc' = "batch" /\ rejected' # NoReject) =>
     /\ groupSize > 1
     /\ groupSize' = (IF groupSize \div 2 >= 1 THEN groupSize \div 2 ELSE 1)
     /\ Len(queue') = Len(group) + Len(queue)
     /\ SubSeq(queue', 1, Len(group)) = group
     /\ SubSeq(queue', Len(group) + 1, Len(queue')) = queue

C30_QueueIsSuffix == [][C30_OversizeStep]_vars /\ [](IsSuffixOfRows(queue))

\* a batch of 2 rows was rejected as oversize with rows waiting behind it:
\* the width is 1 and the queue holds the rejected rows, then the others
C30_Witness ==
  /\ sPc = "batch"
  /\ rejected.width = 2
  /\ groupSize = 1
  /\ Len(queue) > Len(rejected.rows)
  /\ SubSeq(queue, 1, 2) = rejected.rows

(***************************************************************************)
(* C31: on an error handled as transient the same batch is submitted       *)
(* again: the same rows in the same order with the same amounts, with the  *)
(* batch width and the rest of the queue unchanged.                        *)
(***************************************************************************)
C31_SameBatch ==
  /\ group' = group
  /\ IxRows(group)' = IxRows(group)
  /\ sRows' = sRows
  /\ groupSize' = groupSize
  /\ queue' = queue

C31_TransientStep ==
  /\ (sPc = "sending" /\ sPc' = "batchSleep") => C31_SameBatch
  /\ sPc = "batchSleep" => (sPc' = "sending" /\ C31_SameBatch)

C31_TransientRetrySameBatch == [][C31_TransientStep]_vars

\* a batch of two rows is being submitted again after two transient errors,
\* with rows waiting behind it
C31_Witness ==
  /\ sPc = "sending"
  /\ retries = 2
  /\ Len(group) = 2
  /\ Len(IxRows(group)) = 2
  /\ queue # <<>>

(***************************************************************************)
(* C32: when the same batch (or single transfer) is retried repeatedly     *)
(* after transient errors, the delay waited before each retry is larger    *)
(* than the delay waited before the previous retry.                        *)
(***************************************************************************)
C32_RetryDelayGrows ==
  /\ (sPc = "batchSleep" /\ retries >= 2) =>
        BatchRetryDelay(retries) > BatchRetryDelay(retries - 1)
  /\ (sPc = "singleSleep" /\ retries >= 2) =>
        SingleRetryDelay(retries) > SingleRetryDelay(retries - 1)

(***************************************************************************)
(* C33: between any two consecutive submissions of the batched phase there *)
(* is a wait, also when the previous submission succeeded immediately: a   *)
(* submission made after some batch has been confirmed follows a wait.     *)
(***************************************************************************)
C33_GapBetweenSubmissions ==
  (sPc = "sending" /\ \E i \in 1..Len(sRows) : delivered[i] >= 1) =>
     WaitSincePrevious(retries) > 0

(***************************************************************************)
(* C34: whenever a row is left out of a group's transaction (malformed     *)
(* address, or a group with no valid recipient), a log record for that     *)
(* drop is emitted.                                                        *)
(***************************************************************************)
C34_DropsAreLogged ==
  (sPc \in {"batch", "sending"} /\ group # <<>>) =>
     \A i \in Range(group) :
        (sRows[i].amountBase > 0 /\ i \notin Range(IxRows(group))) => i \in LoggedDrops(group)

(***************************************************************************)
(* C35: withConnRetries invokes the operation again after a failure        *)
(* classified transient while attempts remain, for any number of           *)
(* configured endpoints (including exactly one): it gives up on a          *)
(* transient error only after `attempts` invocations.                      *)
(***************************************************************************)
C35_TransientRetriedWhileAttemptsRemain ==
  (bPc = "running" /\ wPc = "thrown" /\ looksRetryableMessage(wLastErr)) =>
     Len(wLog) = ATTEMPTS

(***************************************************************************)
(* C40: rpcIdx is always a valid index of RPCS (0 <= rpcIdx < RPCS.length) *)
(* after any number of rotations, and a failure that is not classified     *)
(* transient leaves rpcIdx and the active connection unchanged.            *)
(***************************************************************************)
\* the messages of ErrorMessages the pattern of looksRetryableMessage does
\* not match
C40_NotTransient == {"Transaction too large: 1644 > 1232", "custom program error: 0x1"}

C40_FailureStep ==
  (wPc = "try" /\ wPc' # "returned" /\ wLastErr' \in C40_NotTransient) =>
     /\ rpcIdx' = rpcIdx
     /\ connection' = connection
     /\ wPc' = "thrown"

C40_RpcIdxValid ==
  /\ [](bPc = "running" =>
          /\ 0 <= rpcIdx
          /\ rpcIdx < Len(RPCS)
          /\ connection = RPCS[rpcIdx + 1])
  /\ [][C40_FailureStep]_vars

\* with two endpoints: the index has gone 0 -> 1 -> 0 within one call, then a
\* failure that is not transient ended the call
C40_Witness ==
  /\ bPc = "running"
  /\ Len(RPCS) = 2
  /\ wPc = "thrown"
  /\ wLastErr \in C40_NotTransient
  /\ Len(wLog) = 3
  /\ rpcIdx = 0

(***************************************************************************)
(* C36: an authorized POST whose report (numeric totalSentUi) has the same *)
(* non-empty cycleId as the stored OPS.lastAirdrop replaces                *)
(* OPS.lastAirdrop with the new report and leaves OPS.totalAirdroppedUi    *)
(* unchanged; a report without a cycleId is always added to the total.     *)
(***************************************************************************)
C36_ReportOf(req) == Get(ParseBody(req.raw), "lastAirdrop")

C36_Accepted(req) ==
  /\ Handle(OPS, srvSecret, req).status = 200
  /\ Truthy(C36_ReportOf(req))
  /\ IsNumber(Get(C36_ReportOf(req), "totalSentUi"))

C36_SameCycleReplacesWithoutAdding ==
  \A req \in Requests :
    LET r   == C36_ReportOf(req)
        cyc == Get(r, "cycleId")
        out == Handle(OPS, srvSecret, req).ops
    IN C36_Accepted(req) =>
         /\ (IsString(cyc) /\ cyc.s # "" /\ OPS.lastAirdrop # Null
               /\ Get(OPS.lastAirdrop, "cycleId") = cyc) =>
              /\ Get(out.lastAirdrop, "totalSentUi") = Get(r, "totalSentUi")
              /\ Get(out.lastAirdrop, "cycleId") = cyc
              /\ out.totalAirdroppedUi = OPS.totalAirdroppedUi
         /\ cyc = Undefined =>
              /\ Get(out.lastAirdrop, "totalSentUi") = Get(r, "totalSentUi")
              /\ out.totalAirdroppedUi = OPS.totalAirdroppedUi + Get(r, "totalSentUi").n

\* two reports of one cycle id with different amounts arrived one after the
\* other: the second is stored, the total is the first one's amount
C36_Witness ==
  /\ Len(posts) = 2
  /\ Get(posts[1], "cycleId") = Get(posts[2], "cycleId")
  /\ IsString(Get(posts[1], "cycleId"))
  /\ Get(posts[1], "totalSentUi") # Get(posts[2], "totalSentUi")
  /\ OPS.lastAirdrop = posts[2]
  /\ OPS.totalAirdroppedUi = Get(posts[1], "totalSentUi").n

(***************************************************************************)
(* C37: an authorized POST that carries only some of lastClaim, lastSwap   *)
(* and lastAirdrop leaves the OPS fields of the absent keys unchanged, and *)
(* leaves totalAirdroppedUi unchanged when lastAirdrop is absent or has no *)
(* numeric totalSentUi.                                                    *)
(***************************************************************************)
C37_PartialUpdateFrame ==
  \A req \in Requests :
    LET body == ParseBody(req.raw)
        res  == Handle(OPS, srvSecret, req)
    IN res.status = 200 =>
         /\ Get(body, "lastClaim") = Undefined => res.ops.lastClaim = OPS.lastClaim
         /\ Get(body, "lastSwap") = Undefined => res.ops.lastSwap = OPS.lastSwap
         /\ Get(body, "lastAirdrop") = Undefined => res.ops.lastAirdrop = OPS.lastAirdrop
         /\ (Get(body, "lastAirdrop") = Undefined
               \/ Get(Get(body, "lastAirdrop"), "totalSentUi").t # "number") =>
              res.ops.totalAirdroppedUi = OPS.totalAirdroppedUi

\* a POST with only lastClaim and a POST with only lastAirdrop have been
\* recorded: each left the other's field, and lastSwap is still unset
C37_Witness ==
  /\ nPosts = 2
  /\ lastStatus = 200
  /\ OPS.lastClaim # Null
  /\ Get(OPS.lastClaim, "amount") = Num(1)
  /\ OPS.lastAirdrop # Null
  /\ OPS.lastSwap = Null
  /\ OPS.totalAirdroppedUi > 0

(***************************************************************************)
(* C38: every allocation row's amount lies between its recipient's floor   *)
(* share and that floor plus one, floor(P*w/T) <= amount <= floor(P*w/T)+1,*)
(* and the number of recipients receiving the extra unit equals P minus    *)
(* the sum of the floors.                                                  *)
(***************************************************************************)
C38_Floors(el, P) ==
  [i \in 1..Len(el) |-> (P * el[i].amountBase) \div TotalEligibleBase(el)]

C38_FloorPlusExtras ==
  aPc = "sent" =>
    LET el == Eligible(holdersBase, minBase, maxBase)
        fl == C38_Floors(el, toSend)
    IN /\ \A r \in 1..Len(rows) :
            \E i \in 1..Len(el) :
               /\ el[i].wallet = rows[r].wallet
               /\ fl[i] <= rows[r].amountBase
               /\ rows[r].amountBase <= fl[i] + 1
       /\ Cardinality({i \in 1..Len(el) : AmountOf(rows, el[i].wallet) = fl[i] + 1})
            = toSend - SumSeq(fl)

\* one unit is left after the floors and goes to one recipient, and a
\* recipient with a floor of 0 and no extra unit gets no row
C38_Witness ==
  /\ aPc = "sent"
  /\ LET el == Eligible(holdersBase, minBase, maxBase)
     IN /\ toSend - SumSeq(C38_Floors(el, toSend)) = 1
        /\ Len(rows) < Len(el)
        /\ Len(rows) >= 2

(***************************************************************************)
(* C39: getHolders(mint) of the snapshot endpoint always resolves to the   *)
(* holder list of the requested mint and runs at most one enumeration at a *)
(* time: a call for mint B that arrives while an enumeration for mint A is *)
(* in flight does not receive A's holders.                                 *)
(***************************************************************************)
\* the lists an enumeration of the mint can produce, whichever scans throw
C39_ListsOf(mint) ==
  {HolderList(MergeInto(IF ok1 THEN byProgram(gpa[mint][TokenPrograms[1]]) ELSE <<>>,
                        IF ok2 THEN byProgram(gpa[mint][TokenPrograms[2]]) ELSE <<>>)) :
     ok1 \in BOOLEAN, ok2 \in BOOLEAN}

C39_OneEnumeration == Cardinality(snapTasks) <= 1

C39_ResolvesToRequestedMint ==
  /\ C39_OneEnumeration
  /\ \A c \in Callers :
        calls[c].pc = "returned" => calls[c].out \in C39_ListsOf(calls[c].mint)
====
